---------------------------- MODULE Spec2Model ----------------------------
(***************************************************************************)
(* Layered configuration resolution of workload-automation:                *)
(*   wlauto/core/configuration/configuration.py  (ConfigurationPoint,      *)
(*       Configuration, RunConfiguration, JobSpec, JobGenerator)           *)
(*   wlauto/core/configuration/parsers.py        (AgendaParser and its     *)
(*       helper functions)                                                 *)
(*                                                                         *)
(* Python values are tagged records [t |-> <type>, v |-> <payload>], so    *)
(* that None, integers, strings, lists, dicts, toggle sets and             *)
(* RebootPolicy objects can be told apart and converted as the kinds do.   *)
(* Identifiers (section / workload / job ids, toggle entries) are          *)
(* sequences of one-character strings, so that "-" in id, "~" prefixes,    *)
(* joins and substring tests are computed, not assumed.                    *)
(***************************************************************************)
EXTENDS Integers, Sequences, FiniteSets, TLC

(***************************************************************************)
(* Bounds of the model.                                                    *)
(***************************************************************************)
\* the update_config calls made on one configuration object
MaxOps == 2

\* the sections and workload entries added to one section tree
MaxNodes == 3

\* the same for the passes that are followed to their end
MaxPassNodes == 4

(***************************************************************************)
(* Python values.                                                          *)
(***************************************************************************)
None == [t |-> "none"]

I(n) == [t |-> "int", v |-> n]

S(s) == [t |-> "str", v |-> s]

L(q) == [t |-> "list", v |-> q]

D(f) == [t |-> "dict", v |-> f]

TS(s) == [t |-> "toggle_set", v |-> s]

RP(p) == [t |-> "RebootPolicy", v |-> p]

EmptyDict == << >>

Range(q) == {q[i] : i \in DOMAIN q}

\* dict.pop(key) / "del d[key]": the mapping without the key
DictWithout(d, keys) == [k \in (DOMAIN d) \ keys |-> d[k]]

\* d[key] = value on a dict held as a function
DictPut(d, key, value) ==
    [k \in (DOMAIN d) \cup {key} |-> IF k = key THEN value ELSE d[k]]

\* dict.update
DictUpdate(d, e) ==
    [k \in (DOMAIN d) \cup (DOMAIN e) |-> IF k \in DOMAIN e THEN e[k] ELSE d[k]]

(***************************************************************************)
(* Outcome of a call: no exception, or the exception raised.  args holds   *)
(* the names the message lists.                                            *)
(***************************************************************************)
Ok == [exc |-> "none", msg |-> "", args |-> {}]

Raise(exc, msg, args) == [exc |-> exc, msg |-> msg, args |-> args]

Failed(r) == r.exc # "none"

(***************************************************************************)
(* Toggle entries and toggle_set (wlauto.utils.types.toggle_set).          *)
(***************************************************************************)
Tilde == "~"

IsNegated(item) == Len(item) > 0 /\ item[1] = Tilde

Negate(item) == <<Tilde>> \o item

\* item[1:]
Positive(item) == Tail(item)

RECURSIVE LStrip(_, _)
LStrip(q, c) == IF Len(q) > 0 /\ q[1] = c THEN LStrip(Tail(q), c) ELSE q

RECURSIVE RStrip(_, _)
RStrip(q, c) ==
    IF Len(q) > 0 /\ q[Len(q)] = c THEN RStrip(SubSeq(q, 1, Len(q) - 1), c) ELSE q

\* str.strip(c)
Strip(q, c) == RStrip(LStrip(q, c), c)

\* toggle_set.conflicts_with: the items held with opposite polarity
ConflictsWith(a, b) ==
    {i \in a : IF IsNegated(i) THEN Positive(i) \in b ELSE Negate(i) \in b}

\* toggle_set.merge_with: the entries of both operands; a negated entry in
\* either operand removes the corresponding positive entry
MergeWith(a, b) ==
    {i \in a \cup b : IsNegated(i) \/ Negate(i) \notin (a \cup b)}

\* toggle_set.values: the enabled items
ToggleValues(a) == {i \in a : ~IsNegated(i)}

(***************************************************************************)
(* merge_config_values (wlauto.utils.misc).                                *)
(***************************************************************************)
RECURSIVE DedupLast(_)
\* a list without duplicates, keeping the last occurrence of each item
DedupLast(q) ==
    IF q = << >> THEN << >>
    ELSE IF Head(q) \in Range(Tail(q)) THEN DedupLast(Tail(q))
         ELSE <<Head(q)>> \o DedupLast(Tail(q))

MergeConfigValues(base, other) ==
    IF base.t = "none" THEN other
    ELSE IF other.t = "none" THEN base
    ELSE IF base.t = "toggle_set" /\ other.t = "toggle_set"
         THEN TS(MergeWith(base.v, other.v))
    ELSE IF base.t = "list" /\ other.t = "list"
         THEN L(DedupLast(base.v \o other.v))
    ELSE IF base.t = "dict" /\ other.t = "dict"
         THEN D(DictUpdate(base.v, other.v))
    ELSE other

(***************************************************************************)
(* Kinds: the coercion functions of the configuration points.              *)
(* A conversion answers [exc, v]: the exception it raises, or the value.   *)
(***************************************************************************)
Conv(v) == [exc |-> "none", v |-> v]

ConvFail(exc) == [exc |-> exc, v |-> None]

MaxInt == 9

\* int(str, 0) for the decimal strings of the model
IsNumeric(s) == \E n \in 0..MaxInt : ToString(n) = s

IntOfStr(s) == CHOOSE n \in 0..MaxInt : ToString(n) = s

valid_policies == {"never", "as_needed", "initial", "each_spec", "each_iteration"}

\* policy.strip().lower().replace(' ', '_') on the spellings of the model
NormalizePolicy(s) ==
    CASE s = "Never" -> "never"
      [] s = " never " -> "never"
      [] s = "as needed" -> "as_needed"
      [] s = "Each Spec" -> "each_spec"
      [] OTHER -> s

Kind(kind, value) ==
    CASE kind = "integer" ->
            IF value.t = "int" THEN Conv(value)
            ELSE IF value.t = "str"
                 THEN IF IsNumeric(value.v) THEN Conv(I(IntOfStr(value.v)))
                      ELSE ConvFail("ValueError")
            ELSE ConvFail("TypeError")
      [] kind = "str" ->
            IF value.t = "str" THEN Conv(value)
            ELSE IF value.t = "int" THEN Conv(S(ToString(value.v)))
            ELSE IF value.t = "RebootPolicy" THEN Conv(S(value.v))
            ELSE Conv(S("<repr>"))
      [] kind = "toggle_set" ->
            IF value.t = "toggle_set" THEN Conv(value)
            ELSE IF value.t = "list" THEN Conv(TS(Range(value.v)))
            ELSE ConvFail("TypeError")
      [] kind = "dict" ->
            IF value.t = "dict" THEN Conv(value)
            ELSE IF value.t \in {"int", "none"} THEN ConvFail("TypeError")
            ELSE ConvFail("ValueError")
      [] kind = "RebootPolicy" ->
            IF value.t = "str"
            THEN IF NormalizePolicy(value.v) \in valid_policies
                 THEN Conv(RP(NormalizePolicy(value.v)))
                 ELSE ConvFail("ConfigError")
            ELSE ConvFail("AttributeError")
      [] kind = "status_list" ->
            IF value.t = "list" THEN Conv(value)
            ELSE ConvFail("TypeError")
      [] OTHER -> Conv(value)

(***************************************************************************)
(* ConfigurationPoint.                                                     *)
(* A point is [name, kind, mandatory, default, allowed, merge, aliases];   *)
(* allowed is the set of allowed payloads, {} when the point has none.     *)
(* None of the points of RunConfiguration and JobSpec has a constraint.    *)
(***************************************************************************)
CP(name, kind, mandatory, default, allowed, merge, aliases) ==
    [name |-> name, kind |-> kind, mandatory |-> mandatory, default |-> default,
     allowed |-> allowed, merge |-> merge, aliases |-> aliases]

HasAttr(obj, name) == name \in DOMAIN obj

\* getattr(obj, name, None)
GetAttr(obj, name) == IF HasAttr(obj, name) THEN obj[name] ELSE None

\* 'list' in str(self.kind)
IsListKind(kind) == kind \in {"status_list", "list_of_strings", "list"}

\* ConfigurationPoint.validate_allowed_values: TRUE when the value passes
AllowedValuesOk(cp, value) ==
    IF IsListKind(cp.kind)
    THEN \A i \in DOMAIN value.v : value.v[i] \in cp.allowed
    ELSE value.v \in cp.allowed

\* ConfigurationPoint.validate_value
ValidateValue(cp, value) ==
    IF cp.allowed # {} /\ ~AllowedValuesOk(cp, value)
    THEN Raise("ConfigError", "Invalid value", {cp.name})
    ELSE Ok

\* ConfigurationPoint.match
CpMatch(cp, name) == name = cp.name \/ name \in Range(cp.aliases)

\* set_value joining the old list and the new one as they are, where
\* merge_config_values drops the repeated items
SetValueConcat(cp, obj, value, check_mandatory) ==
    LET conv == IF value = None
                THEN IF cp.default # None THEN Conv(cp.default)
                     ELSE IF check_mandatory /\ cp.mandatory
                          THEN ConvFail("Mandatory")
                          ELSE Conv(None)
                ELSE Kind(cp.kind, value)
    IN  IF conv.exc = "Mandatory"
        THEN [res |-> Raise("ConfigError", "No values specified for mandatory parameter",
                            {cp.name}),
              obj |-> obj]
        ELSE IF conv.exc \in {"ValueError", "TypeError"}
        THEN [res |-> Raise("ConfigError", "Bad value", {cp.name}), obj |-> obj]
        ELSE IF conv.exc # "none"
        THEN [res |-> Raise(conv.exc, "kind", {cp.name}), obj |-> obj]
        ELSE IF conv.v # None /\ Failed(ValidateValue(cp, conv.v))
        THEN [res |-> ValidateValue(cp, conv.v), obj |-> obj]
        ELSE LET merged == IF cp.merge /\ HasAttr(obj, cp.name)
                           THEN IF obj[cp.name].t = "list" /\ conv.v.t = "list"
                                THEN L(obj[cp.name].v \o conv.v.v)
                                ELSE MergeConfigValues(obj[cp.name], conv.v)
                           ELSE conv.v
             IN  [res |-> Ok, obj |-> DictPut(obj, cp.name, merged)]

\* ConfigurationPoint.set_value: [res, obj], obj unchanged when it raises
SetValue(cp, obj, value, check_mandatory) ==
    LET conv == IF value = None
                THEN IF cp.default # None THEN Conv(cp.default)
                     ELSE IF check_mandatory /\ cp.mandatory
                          THEN ConvFail("Mandatory")
                          ELSE Conv(None)
                ELSE Kind(cp.kind, value)
    IN  IF conv.exc = "Mandatory"
        THEN [res |-> Raise("ConfigError", "No values specified for mandatory parameter",
                            {cp.name}),
              obj |-> obj]
        ELSE IF conv.exc \in {"ValueError", "TypeError"}
        THEN [res |-> Raise("ConfigError", "Bad value", {cp.name}), obj |-> obj]
        ELSE IF conv.exc # "none"
        THEN [res |-> Raise(conv.exc, "kind", {cp.name}), obj |-> obj]
        ELSE IF conv.v # None /\ Failed(ValidateValue(cp, conv.v))
        THEN [res |-> ValidateValue(cp, conv.v), obj |-> obj]
        ELSE LET merged == IF cp.merge /\ HasAttr(obj, cp.name)
                           THEN MergeConfigValues(obj[cp.name], conv.v)
                           ELSE conv.v
             IN  [res |-> Ok, obj |-> DictPut(obj, cp.name, merged)]

CpValidateNoMandatoryCheck(cp, obj) ==
    IF GetAttr(obj, cp.name) # None THEN ValidateValue(cp, GetAttr(obj, cp.name)) ELSE Ok

\* ConfigurationPoint.validate
CpValidate(cp, obj) ==
    IF GetAttr(obj, cp.name) # None
    THEN ValidateValue(cp, GetAttr(obj, cp.name))
    ELSE IF cp.mandatory
         THEN Raise("ConfigError", "No value specified for mandatory parameter", {cp.name})
         ELSE Ok

(***************************************************************************)
(* The configuration classes: their configuration-point tables.            *)
(***************************************************************************)
ITERATION_STATUS ==
    {"NOT_STARTED", "RUNNING", "OK", "NONCRITICAL", "PARTIAL", "FAILED", "ABORTED", "SKIPPED"}

RunConfigurationPoints ==
    { CP("run_name", "str", FALSE, None, {}, FALSE, << >>),
      CP("project", "str", FALSE, None, {}, FALSE, << >>),
      CP("project_stage", "dict", FALSE, None, {}, FALSE, << >>),
      CP("execution_order", "str", FALSE, S("by_iteration"),
         {"by_iteration", "by_spec", "by_section", "random"}, FALSE, << >>),
      CP("reboot_policy", "RebootPolicy", FALSE, S("as_needed"), valid_policies, FALSE, << >>),
      CP("device", "str", TRUE, None, {}, FALSE, << >>),
      CP("retry_on_status", "status_list", FALSE, L(<<"FAILED", "PARTIAL">>),
         ITERATION_STATUS, FALSE, << >>),
      CP("max_retries", "integer", FALSE, I(3), {}, FALSE, << >>) }

JobSpecPoints ==
    { CP("iterations", "integer", FALSE, I(1), {}, FALSE, << >>),
      CP("workload_name", "str", TRUE, None, {}, FALSE, <<"name">>),
      CP("label", "str", FALSE, None, {}, FALSE, << >>),
      CP("instrumentation", "toggle_set", FALSE, None, {}, TRUE, <<"instruments">>),
      CP("flash", "dict", FALSE, None, {}, TRUE, << >>),
      CP("classifiers", "dict", FALSE, None, {}, TRUE, << >>) }

\* WAConfiguration.config_points, which parsers.py imports under the name
\* CoreConfiguration; the parsers use the names only
CoreConfigurationPoints ==
    { CP("user_directory", "str", FALSE, S("~/.workload_automation"), {}, FALSE, << >>),
      CP("plugin_packages", "list_of_strings", FALSE,
         L(<<"wlauto.commands", "wlauto.workloads", "wlauto.instrumentation",
             "wlauto.result_processors", "wlauto.managers", "wlauto.resource_getters">>),
         {}, FALSE, << >>),
      CP("plugin_paths", "list_of_strings", FALSE,
         L(<<"workloads", "instruments", "targets", "processors", "managers",
             "result_processors">>),
         {}, TRUE, << >>),
      CP("plugin_ignore_paths", "list_of_strings", FALSE, L(<< >>), {}, FALSE, << >>),
      CP("logging", "LoggingConfig", FALSE,
         D([file_format |-> S("%(asctime)s %(levelname)-8s %(name)s: %(message)s"),
            verbose_format |-> S("%(asctime)s %(levelname)-8s %(name)s: %(message)s"),
            regular_format |-> S("%(levelname)-8s %(message)s"),
            color |-> [t |-> "bool", v |-> TRUE]]),
         {}, FALSE, << >>),
      CP("verbosity", "integer", FALSE, I(0), {}, FALSE, << >>),
      CP("default_output_directory", "str", FALSE, S("wa_output"), {}, FALSE, << >>) }

ConfigPoints(cls) ==
    CASE cls = "JobSpec" -> JobSpecPoints
      [] cls = "RunConfiguration" -> RunConfigurationPoints
      [] OTHER -> CoreConfigurationPoints

\* cls.configuration: {cp.name: cp for cp in config_points}
ConfigNames(cls) == {cp.name : cp \in ConfigPoints(cls)}

Point(cls, name) == CHOOSE cp \in ConfigPoints(cls) : cp.name = name

ClassName(cls) ==
    CASE cls = "JobSpec" -> "Job Spec"
      [] cls = "RunConfiguration" -> "Run Configuration"
      [] OTHER -> "WA Configuration"

(***************************************************************************)
(* Configuration.                                                          *)
(***************************************************************************)
\* Configuration.__init__: load the default of every configuration point
LoadDefaults(cls) ==
    [n \in ConfigNames(cls) |-> SetValue(Point(cls, n), EmptyDict, None, FALSE).obj[n]]

\* RunConfiguration.__init__ / JobSpec.__init__
NewInstance(cls) ==
    IF cls = "JobSpec"
    THEN DictUpdate(LoadDefaults(cls),
                    [to_merge |-> EmptyDict,
                     _sources |-> << >>,
                     id |-> None,
                     workload_parameters |-> None,
                     runtime_parameters |-> None,
                     boot_parameters |-> None])
    ELSE IF cls = "RunConfiguration"
    THEN DictUpdate(LoadDefaults(cls), [device_config |-> None])
    ELSE LoadDefaults(cls)

\* Configuration.set
ConfigSet(cls, obj, name, value, check_mandatory) ==
    IF name \notin ConfigNames(cls)
    THEN [res |-> Raise("ConfigError", "Unknown configuration", {name}), obj |-> obj]
    ELSE SetValue(Point(cls, name), obj, value, check_mandatory)

RECURSIVE ConfigUpdate(_, _, _, _)
\* Configuration.update_config: items is values.iteritems() in the order the
\* dict yields them; the keys before a failing one stay set
ConfigUpdate(cls, obj, items, check_mandatory) ==
    IF items = << >> THEN [res |-> Ok, obj |-> obj]
    ELSE LET r == ConfigSet(cls, obj, Head(items)[1], Head(items)[2], check_mandatory)
         IN  IF Failed(r.res) THEN r
             ELSE ConfigUpdate(cls, r.obj, Tail(items), check_mandatory)

\* Configuration.validate
ConfigValidate(cls, obj) ==
    LET bad == {cp \in ConfigPoints(cls) : Failed(CpValidate(cp, obj))}
    IN  IF bad = {} THEN Ok ELSE CpValidate(CHOOSE cp \in bad : TRUE, obj)

\* Configuration.to_pod: the configuration points whose value is not None
ConfigToPod(cls, obj) ==
    LET present == {n \in ConfigNames(cls) : GetAttr(obj, n) # None}
    IN  [n \in present |-> obj[n]]

\* What a from_pod call answers: the exception raised, or the object returned
\* (inst; returned = "None" when the method falls off its end).
PodRaised(res) == [res |-> res, returned |-> "raised", inst |-> EmptyDict]

PodReturned(inst) == [res |-> Ok, returned |-> "instance", inst |-> inst]

PodReturnedNone == [res |-> Ok, returned |-> "None", inst |-> EmptyDict]

\* the loop of Configuration.from_pod: every registered name found in the pod
\* is popped and set on the instance (each point writes its own attribute)
PodConsumed(cls, pod) == (DOMAIN pod) \cap ConfigNames(cls)

PodLeftover(cls, pod) == (DOMAIN pod) \ ConfigNames(cls)

PodSetFailures(cls, pod) ==
    {n \in PodConsumed(cls, pod) :
        Failed(SetValue(Point(cls, n), NewInstance(cls), pod[n], TRUE).res)}

PodInstance(cls, pod) ==
    LET fresh == NewInstance(cls)
    IN  [a \in DOMAIN fresh |->
            IF a \in PodConsumed(cls, pod)
            THEN SetValue(Point(cls, a), fresh, pod[a], TRUE).obj[a]
            ELSE fresh[a]]

ConfigFromPodNoLeftoverCheck(cls, pod) ==
    IF PodSetFailures(cls, pod) # {}
    THEN {PodRaised(SetValue(Point(cls, n), NewInstance(cls), pod[n], TRUE).res) :
              n \in PodSetFailures(cls, pod)}
    ELSE IF Failed(ConfigValidate(cls, PodInstance(cls, pod)))
    THEN {PodRaised(ConfigValidate(cls, PodInstance(cls, pod)))}
    ELSE {PodReturned(PodInstance(cls, pod))}

\* Configuration.from_pod: the set of possible outcomes (which failing point
\* raises first depends on the iteration order of cls.configuration)
ConfigFromPod(cls, pod) ==
    IF PodSetFailures(cls, pod) # {}
    THEN {PodRaised(SetValue(Point(cls, n), NewInstance(cls), pod[n], TRUE).res) :
              n \in PodSetFailures(cls, pod)}
    ELSE IF PodLeftover(cls, pod) # {}
    THEN {PodRaised(Raise("ConfigError", "Invalid entry(ies)", PodLeftover(cls, pod)))}
    ELSE IF Failed(ConfigValidate(cls, PodInstance(cls, pod)))
    THEN {PodRaised(ConfigValidate(cls, PodInstance(cls, pod)))}
    ELSE {PodReturned(PodInstance(cls, pod))}

(***************************************************************************)
(* RunConfiguration.                                                       *)
(***************************************************************************)
\* plugin_cache.get_plugin_parameters(device): the names of the parameters
\* of the device plugin
PluginParameters(device) == IF device = S("dev") THEN {"adb_name"} ELSE {}

\* plugin_cache.get_plugin_config(device, generic_name="device_config")
PluginConfig(device) == D([n \in PluginParameters(device) |-> None])

\* RunConfiguration.merge_device_config
MergeDeviceConfig(obj) == DictPut(obj, "device_config", PluginConfig(obj["device"]))

\* RunConfiguration.to_pod
RunConfigToPod(obj) ==
    DictPut(ConfigToPod("RunConfiguration", obj), "device_config", obj["device_config"])

\* obj_dict(values=...)
ObjDict(value) == IF value.t = "dict" THEN value ELSE D(EmptyDict)

\* RunConfiguration.from_pod
RunConfigFromPod(pod) ==
    IF "device_config" \notin DOMAIN pod
    THEN {PodRaised(Raise("ConfigError", "No value specified for mandatory parameter",
                          {"device_config"}))}
    ELSE LET device_config == ObjDict(pod["device_config"])
             finish(o) ==
                 IF o.returned # "instance" THEN o
                 ELSE IF (DOMAIN device_config.v) \ PluginParameters(o.inst["device"]) # {}
                 THEN PodRaised(Raise("ConfigError", "Invalid entry for device",
                          (DOMAIN device_config.v) \ PluginParameters(o.inst["device"])))
                 ELSE PodReturned(DictPut(o.inst, "device_config", device_config))
         IN  {finish(o) :
                 o \in ConfigFromPod("RunConfiguration", DictWithout(pod, {"device_config"}))}

(***************************************************************************)
(* JobSpec.                                                                *)
(* A source (a section node or a workload entry) is [name, config]; its    *)
(* config maps "id", configuration names and the three *_parameters keys   *)
(* to values.                                                              *)
(***************************************************************************)
Id(q) == [t |-> "id", v |-> q]

ToMergeKeys == {"workload_parameters", "runtime_parameters", "boot_parameters"}

\* Python truth of a value ("if v:")
Truthy(v) ==
    CASE v.t = "none" -> FALSE
      [] v.t = "dict" -> DOMAIN v.v # {}
      [] v.t = "list" -> v.v # << >>
      [] v.t = "toggle_set" -> v.v # {}
      [] v.t = "int" -> v.v # 0
      [] OTHER -> TRUE

\* defaultdict(OrderedDict) lookup
ToMergeOf(obj, key) == IF key \in DOMAIN obj["to_merge"] THEN obj["to_merge"][key] ELSE << >>

\* self.to_merge[k][source] = v on an OrderedDict: a source that has an entry
\* keeps its place, a new one goes last
OrderedPut(q, source, v) ==
    IF \E i \in DOMAIN q : q[i].source = source
    THEN [i \in DOMAIN q |-> IF q[i].source = source THEN [source |-> source, values |-> v]
                             ELSE q[i]]
    ELSE Append(q, [source |-> source, values |-> v])

RECURSIVE JobSpecApply(_, _, _, _)
\* the loop of JobSpec.update_config over the keys in the order given
JobSpecApply(obj, source, keys, check_mandatory) ==
    IF keys = << >> THEN [res |-> Ok, obj |-> obj]
    ELSE LET k == Head(keys)
             v == source.config[k]
         IN  IF k = "id" THEN JobSpecApply(obj, source, Tail(keys), check_mandatory)
             ELSE IF k \in ToMergeKeys
             THEN IF Truthy(v)
                  THEN JobSpecApply(
                         DictPut(obj, "to_merge",
                                 DictPut(obj["to_merge"], k,
                                         OrderedPut(ToMergeOf(obj, k), source.name, v))),
                         source, Tail(keys), check_mandatory)
                  ELSE JobSpecApply(obj, source, Tail(keys), check_mandatory)
             ELSE LET r == ConfigSet("JobSpec", obj, k, v, check_mandatory)
                  IN  IF Failed(r.res)
                      THEN IF r.res.exc = "ConfigError"
                           THEN [res |-> Raise("ConfigError", "Error in source", r.res.args),
                                 obj |-> obj]
                           ELSE [res |-> r.res, obj |-> obj]
                      ELSE JobSpecApply(r.obj, source, Tail(keys), check_mandatory)

\* JobSpec.update_config(source): keys is values.iteritems() order
JobSpecUpdateConfig(obj, source, keys, check_mandatory) ==
    JobSpecApply(DictPut(obj, "_sources", Append(obj["_sources"], source)),
                 source, keys, check_mandatory)

\* JobSpec.to_pod
JobSpecToPod(obj) ==
    DictUpdate(ConfigToPod("JobSpec", obj),
               [workload_parameters |-> obj["workload_parameters"],
                runtime_parameters |-> obj["runtime_parameters"],
                boot_parameters |-> obj["boot_parameters"]])

\* JobSpec.from_pod: the three keys are read, not popped; the KeyError
\* handler formats its message with '"{}}"', which str.format rejects; the
\* method ends without a return statement
JobSpecFromPod(pod) ==
    IF ~(ToMergeKeys \subseteq DOMAIN pod)
    THEN {PodRaised(Raise("ValueError", "Single '}' encountered in format string", {}))}
    ELSE {IF o.returned = "instance" THEN PodReturnedNone ELSE o :
             o \in ConfigFromPod("JobSpec", pod)}

\* cls.to_pod / cls.from_pod by class
ToPod(cls, obj) ==
    CASE cls = "JobSpec" -> JobSpecToPod(obj)
      [] cls = "RunConfiguration" -> RunConfigToPod(obj)
      [] OTHER -> ConfigToPod(cls, obj)

FromPod(cls, pod) ==
    CASE cls = "JobSpec" -> JobSpecFromPod(pod)
      [] cls = "RunConfiguration" -> RunConfigFromPod(pod)
      [] OTHER -> ConfigFromPod(cls, pod)

(***************************************************************************)
(* Identifiers.                                                            *)
(***************************************************************************)
Dash == "-"

GlobalId == <<"g", "l", "o", "b", "a", "l">>

RECURSIVE Digits(_)
\* the decimal digits of n, as "{}".format(n) writes them
Digits(n) == IF n < 10 THEN <<ToString(n)>> ELSE Digits(n \div 10) \o <<ToString(n % 10)>>

\* "{}{}".format(counter_name, n)
AutoId(prefix, n) == prefix \o Digits(n)

RECURSIVE Join(_, _)
\* sep.join(ids)
Join(sep, ids) ==
    IF ids = << >> THEN << >>
    ELSE IF Len(ids) = 1 THEN ids[1]
    ELSE ids[1] \o <<sep>> \o Join(sep, Tail(ids))

\* "a in b" on strings
IsSubstring(a, b) ==
    \E i \in 1..(Len(b) + 1) : i + Len(a) - 1 <= Len(b) /\ SubSeq(b, i, i + Len(a) - 1) = a

RECURSIVE SetToSeq(_)
\* the elements of a set in some fixed order
SetToSeq(A) ==
    IF A = {} THEN << >>
    ELSE LET x == CHOOSE y \in A : TRUE IN <<x>> \o SetToSeq(A \ {x})

(***************************************************************************)
(* parsers.py, the helper functions.  A raw entry is a dict D(f); its      *)
(* string values that are ids are held as Id(q).                           *)
(***************************************************************************)
\* get_aliased_param popping the key it finds whatever pop says
GetAliasedParamAlwaysPop(cfg_point, d, default, pop) ==
    LET aliases == <<cfg_point.name>> \o cfg_point.aliases
        alias_map == SelectSeq(aliases, LAMBDA a : a \in DOMAIN d)
    IN  IF Len(alias_map) > 1
        THEN [res |-> Raise("ConfigError", "Only one of {} may be specified in a single entry",
                            Range(aliases)),
              value |-> None, d |-> d]
        ELSE IF alias_map # << >>
        THEN [res |-> Ok, value |-> d[alias_map[1]], d |-> DictWithout(d, {alias_map[1]})]
        ELSE [res |-> Ok, value |-> default, d |-> d]

\* get_aliased_param(cfg_point, d, default, pop): [res, value, d], d being
\* the dict as the call leaves it
GetAliasedParamOf(cfg_point, d, default, pop) ==
    LET aliases == <<cfg_point.name>> \o cfg_point.aliases
        alias_map == SelectSeq(aliases, LAMBDA a : a \in DOMAIN d)
    IN  IF Len(alias_map) > 1
        THEN [res |-> Raise("ConfigError", "Only one of {} may be specified in a single entry",
                            Range(aliases)),
              value |-> None, d |-> d]
        ELSE IF alias_map # << >>
        THEN IF pop
             THEN [res |-> Ok, value |-> d[alias_map[1]], d |-> DictWithout(d, {alias_map[1]})]
             ELSE [res |-> Ok, value |-> d[alias_map[1]], d |-> d]
        ELSE [res |-> Ok, value |-> default, d |-> d]

\* get_aliased_param(cfg_point, d, default) with pop left at its default:
\* the value found under the point's name or one of its aliases, and d
\* without it
GetAliasedParam(cp, d, default) == GetAliasedParamOf(cp, d, default, TRUE)

\* toggle_set(value) of a list
ToggleSetOf(value) == IF value.t = "toggle_set" THEN value.v ELSE Range(value.v)

\* d.pop(key, default)
PopValue(d, key, default) == IF key \in DOMAIN d THEN d[key] ELSE default

\* the second half of merge_result_processors_instruments: raw is the entry
\* with both lists popped; check tells whether conflicts are looked for
MergeLists(instruments, result_processors, raw, check) ==
    IF /\ check
       /\ instruments # {}
       /\ result_processors # {}
       /\ ConflictsWith(instruments, result_processors) # {}
    THEN [res |-> Raise("ConfigError",
                        "\"instrumentation\" and \"result_processors\" have conflicting entries",
                        {Strip(c, Tilde) : c \in ConflictsWith(instruments, result_processors)}),
          raw |-> raw]
    ELSE [res |-> Ok,
          raw |-> DictPut(raw, "instrumentation", TS(MergeWith(instruments, result_processors)))]

\* the first half: the instrumentation list is taken by name or alias, then
\* the result_processors list
PopLists(g, raw, check) ==
    IF Failed(g.res) THEN [res |-> g.res, raw |-> raw]
    ELSE MergeLists(ToggleSetOf(g.value),
                    ToggleSetOf(PopValue(g.d, "result_processors", L(<< >>))),
                    DictWithout(g.d, {"result_processors"}), check)

\* merge_result_processors_instruments without the conflict check
MergeResultProcessorsInstrumentsUnchecked(raw) ==
    PopLists(GetAliasedParam(Point("JobSpec", "instrumentation"), raw, L(<< >>)), raw, FALSE)

\* merge_result_processors_instruments(raw): the outcome and raw as it leaves it
MergeResultProcessorsInstruments(raw) ==
    PopLists(GetAliasedParam(Point("JobSpec", "instrumentation"), raw, L(<< >>)), raw, TRUE)

\* _collect_valid_id without the check of the reserved id
CollectValidIdNoReserved(entry_id, seen_ids) ==
    IF entry_id = None THEN [res |-> Ok, seen |-> seen_ids]
    ELSE IF entry_id \in seen_ids
    THEN [res |-> Raise("ConfigError", "Duplicate ID", {entry_id}), seen |-> seen_ids]
    ELSE IF Dash \in Range(entry_id.v)
    THEN [res |-> Raise("ConfigError", "IDs cannot contain a \"-\"", {entry_id}),
          seen |-> seen_ids]
    ELSE [res |-> Ok, seen |-> seen_ids \cup {entry_id}]

\* _collect_valid_id(entry_id, seen_ids, entry_type): the outcome and seen_ids
\* as it leaves it
CollectValidId(entry_id, seen_ids) ==
    IF entry_id = None THEN [res |-> Ok, seen |-> seen_ids]
    ELSE IF entry_id \in seen_ids
    THEN [res |-> Raise("ConfigError", "Duplicate ID", {entry_id}), seen |-> seen_ids]
    ELSE IF Dash \in Range(entry_id.v)
    THEN [res |-> Raise("ConfigError", "IDs cannot contain a \"-\"", {entry_id}),
          seen |-> seen_ids]
    ELSE IF entry_id.v = GlobalId
    THEN [res |-> Raise("ConfigError", "\"global\" is a reserved ID", {entry_id}),
          seen |-> seen_ids]
    ELSE [res |-> Ok, seen |-> seen_ids \cup {entry_id}]

\* _resolve_params_alias(entry, prefix, use_params)
ResolveParamsAlias(entry, prefix, use_params) ==
    LET possible_names == {prefix \o "_params", prefix \o "_parameters"}
                              \cup (IF use_params THEN {"params"} ELSE {})
        duplicate_entries == possible_names \cap DOMAIN entry
    IN  IF Cardinality(duplicate_entries) > 1
        THEN [res |-> Raise("ConfigError", "Only one of {} may be specified in a single entry",
                            possible_names),
              entry |-> entry]
        ELSE IF duplicate_entries = {} THEN [res |-> Ok, entry |-> entry]
        ELSE [res |-> Ok,
              entry |-> DictPut(DictWithout(entry, duplicate_entries),
                                prefix \o "_parameters",
                                entry[CHOOSE n \in duplicate_entries : TRUE])]

\* _get_workload_entry(workload): a string is the name of the workload
GetWorkloadEntry(workload) ==
    IF workload.t = "str" THEN [res |-> Ok, entry |-> [name |-> workload]]
    ELSE IF workload.t # "dict"
    THEN [res |-> Raise("ConfigError", "Invalid workload entry", {}), entry |-> EmptyDict]
    ELSE [res |-> Ok, entry |-> workload.v]

RECURSIVE NextCount(_, _, _)
\* the loop of _construct_valid_entry over counter(name): the first count
\* after n whose id is not in seen_ids
NextCount(prefix, n, seen_ids) ==
    IF Id(AutoId(prefix, n + 1)) \notin seen_ids THEN n + 1
    ELSE NextCount(prefix, n + 1, seen_ids)

RECURSIVE ValidateEntries(_, _, _)
\* the loop of _construct_valid_entry over JobSpec.configuration, names
\* being the order it yields the points in: [res, entries, raw]
ValidateEntries(c, names, cls) ==
    IF Failed(c.res) \/ names = << >> THEN c
    ELSE ValidateEntries(
             LET g == GetAliasedParam(Point(cls, Head(names)), c.raw, None)
             IN  IF Failed(g.res) THEN [res |-> g.res, entries |-> c.entries, raw |-> c.raw]
                 ELSE IF g.value = None THEN [res |-> Ok, entries |-> c.entries, raw |-> g.d]
                 ELSE IF Kind(Point(cls, Head(names)).kind, g.value).exc # "none"
                 THEN [res |-> Raise(Kind(Point(cls, Head(names)).kind, g.value).exc, "kind",
                                     {Head(names)}),
                       entries |-> c.entries, raw |-> g.d]
                 ELSE [res |-> ValidateValue(Point(cls, Head(names)),
                                             Kind(Point(cls, Head(names)).kind, g.value).v),
                       entries |-> DictPut(c.entries, Head(names),
                                           Kind(Point(cls, Head(names)).kind, g.value).v),
                       raw |-> g.d],
             Tail(names), cls)

\* the end of _construct_valid_entry: the three parameter blocks are taken,
\* and what is left in raw is an error
CloseEntry(c, seen_ids, count) ==
    IF Failed(c.res)
    THEN [res |-> c.res, entry |-> EmptyDict, seen |-> seen_ids, count |-> count]
    ELSE IF DOMAIN c.raw \ ToMergeKeys # {}
    THEN [res |-> Raise("ConfigError", "Invalid entry(ies)", DOMAIN c.raw \ ToMergeKeys),
          entry |-> EmptyDict, seen |-> seen_ids, count |-> count]
    ELSE [res |-> Ok,
          entry |-> DictUpdate(c.entries, [k \in ToMergeKeys |-> PopValue(c.raw, k, None)]),
          seen |-> seen_ids, count |-> count]

\* _construct_valid_entry once the id is settled: the lists are merged, then
\* every JobSpec point is looked up in raw
FillEntry(entry_id, m, seen_ids, count) ==
    CloseEntry(ValidateEntries([res |-> m.res, entries |-> [id |-> entry_id], raw |-> m.raw],
                               SetToSeq(ConfigNames("JobSpec")), "JobSpec"),
               seen_ids, count)

\* _construct_valid_entry(raw, seen_ids, counter_name), count being the value
\* of the process-wide counter of that name: [res, entry, seen, count]
ConstructValidEntry(raw, seen_ids, count, prefix) ==
    IF "id" \notin DOMAIN raw
    THEN FillEntry(Id(AutoId(prefix, NextCount(prefix, count, seen_ids))),
                   MergeResultProcessorsInstruments(raw),
                   seen_ids \cup {Id(AutoId(prefix, NextCount(prefix, count, seen_ids)))},
                   NextCount(prefix, count, seen_ids))
    ELSE FillEntry(raw["id"], MergeResultProcessorsInstruments(DictWithout(raw, {"id"})),
                   seen_ids, count)

\* _process_workload_entry(workload, seen_workload_ids)
ConstructWorkload(a, seen_ids, count) ==
    IF Failed(a.res)
    THEN [res |-> a.res, entry |-> EmptyDict, seen |-> seen_ids, count |-> count]
    ELSE ConstructValidEntry(a.entry, seen_ids, count, <<"w", "k">>)

ResolveWorkload(w) ==
    IF Failed(w.res) THEN w ELSE ResolveParamsAlias(w.entry, "workload", TRUE)

ProcessWorkloadEntry(workload, seen_ids, count) ==
    ConstructWorkload(ResolveWorkload(GetWorkloadEntry(workload)), seen_ids, count)

(***************************************************************************)
(* parsers.py, ConfigParser.  The parser's four dicts, for the one source  *)
(* of the model, are [core, run, jobs, plugins].                           *)
(***************************************************************************)
NoConfig == [core |-> EmptyDict, run |-> EmptyDict, jobs |-> EmptyDict, plugins |-> EmptyDict]

\* self.<part>_config[source][cfg_point.name] = value, when a value is found
StoreValue(c, g, part, name) ==
    IF Failed(g.res) THEN [res |-> g.res, cfg |-> c.cfg, raw |-> c.raw]
    ELSE IF g.value = None THEN [res |-> Ok, cfg |-> c.cfg, raw |-> g.d]
    ELSE [res |-> Ok, raw |-> g.d,
          cfg |-> DictPut(c.cfg, part, DictPut(c.cfg[part], name, g.value))]

RECURSIVE StorePoints(_, _, _, _)
\* one of the three loops of ConfigParser.load over the points of a class
StorePoints(c, names, cls, part) ==
    IF Failed(c.res) \/ names = << >> THEN c
    ELSE StorePoints(StoreValue(c, GetAliasedParam(Point(cls, Head(names)), c.raw, None),
                                part, Head(names)),
                     Tail(names), cls, part)

\* the last loop: what is left in raw is kept for the plugins
StoreLeftover(c) ==
    IF Failed(c.res) THEN [res |-> c.res, cfg |-> c.cfg]
    ELSE [res |-> Ok, cfg |-> DictPut(c.cfg, "plugins", DictUpdate(c.cfg["plugins"], c.raw))]

\* ConfigParser.load after merge_result_processors_instruments
StoreConfig(m, cfg) ==
    IF Failed(m.res) THEN [res |-> m.res, cfg |-> cfg]
    ELSE StoreLeftover(
             StorePoints(
                 StorePoints(
                     StorePoints([res |-> Ok, cfg |-> cfg, raw |-> m.raw],
                                 SetToSeq(ConfigNames("CoreConfiguration")),
                                 "CoreConfiguration", "core"),
                     SetToSeq(ConfigNames("RunConfiguration")), "RunConfiguration", "run"),
                 SetToSeq(ConfigNames("JobSpec")), "JobSpec", "jobs"))

\* ConfigParser.load(raw, source, wrap_exceptions=False): [res, cfg]
ConfigParserLoad(raw, cfg) ==
    IF "run_name" \in DOMAIN raw
    THEN [res |-> Raise("ConfigError",
                        "\"run_name\" can only be specified in the config section of an agenda",
                        {"run_name"}),
          cfg |-> cfg]
    ELSE IF "id" \in DOMAIN raw
    THEN [res |-> Raise("ConfigError", "\"id\" cannot be set globally", {"id"}), cfg |-> cfg]
    ELSE StoreConfig(MergeResultProcessorsInstruments(raw), cfg)

(***************************************************************************)
(* parsers.py, AgendaParser.load.  The state of a load under way is        *)
(*   [res, run_name, cfg, seenW, seenS, countW, countS, workloads,         *)
(*    sections, calls]                                                     *)
(* res the outcome so far, run_name what run_config[source] holds, cfg the *)
(* dicts of config_section, seenW and seenS the sets of seen workload and  *)
(* section ids, countW and countS the process-wide counters "wk" and "s",  *)
(* workloads and sections the lists of jobs_config, calls the calls made   *)
(* to _collect_valid_id, each [id, before, res, after].                    *)
(***************************************************************************)
Fail(a, res) == [a EXCEPT !.res = res]

\* PHASE 1, the end of one turn: r is what config_section.load gave
AfterConfigEntry(a, r, entry) ==
    [a EXCEPT !.res = r.res, !.cfg = r.cfg,
              !.run_name = PopValue(entry, "run_name", a.run_name)]

\* PHASE 1 for one of the names config and global, entry being
\* raw.pop(name, {})
LoadConfigEntry(a, entry, name) ==
    IF Failed(a.res) THEN a
    ELSE IF entry.t # "dict"
    THEN Fail(a, Raise("ConfigError", "Invalid entry - must be a dict", {name}))
    ELSE AfterConfigEntry(a, ConfigParserLoad(DictWithout(entry.v, {"run_name"}), a.cfg),
                          entry.v)

\* PHASE 2 without the check of what is left in raw
CheckEntriesAnyKey(a, raw) ==
    IF Failed(a.res) THEN a
    ELSE IF PopValue(raw, "sections", L(<< >>)).t # "list"
    THEN Fail(a, Raise("ConfigError", "Invalid entry - must be a list", {"sections"}))
    ELSE IF PopValue(raw, "workloads", L(<< >>)).t # "list"
    THEN Fail(a, Raise("ConfigError", "Invalid entry - must be a list", {"workloads"}))
    ELSE a

\* PHASE 2: sections and workloads must be lists, and nothing else may be left
CheckEntries(a, raw) ==
    IF Failed(a.res) THEN a
    ELSE IF PopValue(raw, "sections", L(<< >>)).t # "list"
    THEN Fail(a, Raise("ConfigError", "Invalid entry - must be a list", {"sections"}))
    ELSE IF PopValue(raw, "workloads", L(<< >>)).t # "list"
    THEN Fail(a, Raise("ConfigError", "Invalid entry - must be a list", {"workloads"}))
    ELSE IF DOMAIN raw \ {"config", "global", "sections", "workloads"} # {}
    THEN Fail(a, Raise("ConfigError", "Invalid top level agenda entry(ies)",
                       DOMAIN raw \ {"config", "global", "sections", "workloads"}))
    ELSE a

\* section["workloads"] if "workloads" in section else []
WorkloadsOf(section) == PopValue(section.v, "workloads", L(<< >>)).v

RECURSIVE IdItems(_)
\* the entries of PHASE 3 in the order they are visited, each section before
\* its workloads
IdItems(sections) ==
    IF sections = << >> THEN << >>
    ELSE <<[kind |-> "section", item |-> Head(sections)]>>
             \o [k \in 1..Len(WorkloadsOf(Head(sections))) |->
                    [kind |-> "workload", item |-> WorkloadsOf(Head(sections))[k]]]
             \o IdItems(Tail(sections))

\* PHASE 3, the end of one turn: r is what _collect_valid_id gave for the id
AfterCollect(a, kind, entry_id, r) ==
    IF kind = "section"
    THEN [a EXCEPT !.res = r.res, !.seenS = r.seen,
                   !.calls = Append(@, [id |-> entry_id, before |-> a.seenS,
                                        res |-> r.res, after |-> r.seen])]
    ELSE [a EXCEPT !.res = r.res, !.seenW = r.seen,
                   !.calls = Append(@, [id |-> entry_id, before |-> a.seenW,
                                        res |-> r.res, after |-> r.seen])]

\* PHASE 3 for one entry: entry.get("id") goes to _collect_valid_id
CollectOne(a, kind, w) ==
    IF Failed(w.res) THEN Fail(a, w.res)
    ELSE AfterCollect(a, kind, PopValue(w.entry, "id", None),
                      CollectValidId(PopValue(w.entry, "id", None),
                                     IF kind = "section" THEN a.seenS ELSE a.seenW))

RECURSIVE CollectIds(_, _)
\* PHASE 3
CollectIds(a, items) ==
    IF Failed(a.res) \/ items = << >> THEN a
    ELSE CollectIds(CollectOne(a, Head(items).kind,
                               IF Head(items).kind = "section"
                               THEN [res |-> Ok, entry |-> Head(items).item.v]
                               ELSE GetWorkloadEntry(Head(items).item)),
                    Tail(items))

\* one turn of a loop over workloads: b is [res, seen, count, out], out the
\* list appended to, r what _process_workload_entry gave
AppendWorkload(b, r) ==
    [res |-> r.res, seen |-> r.seen, count |-> r.count,
     out |-> IF Failed(r.res) THEN b.out ELSE Append(b.out, r.entry)]

RECURSIVE ProcessWorkloads(_, _)
\* a loop of PHASE 4 over a list of workloads
ProcessWorkloads(b, workloads) ==
    IF Failed(b.res) \/ workloads = << >> THEN b
    ELSE ProcessWorkloads(AppendWorkload(b, ProcessWorkloadEntry(Head(workloads), b.seen,
                                                                 b.count)),
                          Tail(workloads))

\* PHASE 4, the global workloads: b is what the loop gave
AfterGlobalWorkloads(a, b) ==
    [a EXCEPT !.res = b.res, !.seenW = b.seen, !.countW = b.count, !.workloads = b.out]

\* the two calls of _resolve_params_alias on a section
ResolveWorkloadAlias(r) ==
    IF Failed(r.res) THEN r ELSE ResolveParamsAlias(r.entry, "workload", FALSE)

ResolveSection(section) ==
    ResolveWorkloadAlias(ResolveParamsAlias(section, "runtime", TRUE))

\* _construct_valid_entry(section, seen_section_ids, "s") and the append
AppendSection(a, workloads, c) ==
    [a EXCEPT !.res = c.res, !.seenS = c.seen, !.countS = c.count,
              !.sections = IF Failed(c.res) THEN @
                           ELSE Append(@, [section |-> c.entry, workloads |-> workloads])]

ConstructSection(a, workloads, r) ==
    IF Failed(r.res) THEN Fail(a, r.res)
    ELSE AppendSection(a, workloads, ConstructValidEntry(r.entry, a.seenS, a.countS, <<"s">>))

\* PHASE 4 for one section: b is what the loop over its workloads gave
AfterSectionWorkloads(a, b, section) ==
    IF Failed(b.res) THEN [a EXCEPT !.res = b.res, !.seenW = b.seen, !.countW = b.count]
    ELSE ConstructSection([a EXCEPT !.seenW = b.seen, !.countW = b.count], b.out,
                          ResolveSection(DictWithout(section, {"workloads"})))

RECURSIVE ProcessSections(_, _)
\* PHASE 4, the sections
ProcessSections(a, sections) ==
    IF Failed(a.res) \/ sections = << >> THEN a
    ELSE ProcessSections(
             AfterSectionWorkloads(
                 a,
                 ProcessWorkloads([res |-> Ok, seen |-> a.seenW, count |-> a.countW,
                                   out |-> << >>],
                                  WorkloadsOf(Head(sections))),
                 Head(sections).v),
             Tail(sections))

\* PHASE 4
AssignIds(a, global_workloads, sections) ==
    IF Failed(a.res) THEN a
    ELSE ProcessSections(
             AfterGlobalWorkloads(
                 a, ProcessWorkloads([res |-> Ok, seen |-> a.seenW, count |-> a.countW,
                                      out |-> a.workloads],
                                     global_workloads)),
             sections)

\* PHASES 3 and 4 over the lists PHASE 2 took from raw
LoadEntries(a, global_workloads, sections) ==
    IF Failed(a.res) THEN a
    ELSE AssignIds(CollectIds(a, [k \in 1..Len(global_workloads) |->
                                     [kind |-> "workload", item |-> global_workloads[k]]]
                                     \o IdItems(sections)),
                   global_workloads, sections)

\* the body of the try block for a raw that is a dict
LoadAgenda(a, raw) ==
    LoadEntries(CheckEntries(LoadConfigEntry(LoadConfigEntry(a, PopValue(raw, "config",
                                                                         D(EmptyDict)),
                                                             "config"),
                                             PopValue(raw, "global", D(EmptyDict)), "global"),
                             raw),
                PopValue(raw, "workloads", L(<< >>)).v,
                PopValue(raw, "sections", L(<< >>)).v)

\* except (ConfigError, SerializerSyntaxError): the error is raised again
\* with the source in front; any other exception passes
WrapError(a) ==
    IF a.res.exc = "ConfigError"
    THEN Fail(a, Raise("ConfigError", "Error in \"source\": " \o a.res.msg, a.res.args))
    ELSE a

\* the state of a load as it starts: p is the parser, [source, run_name, cfg,
\* workloads, sections], c the process-wide counters [wk, s]
StartLoad(p, c) ==
    [res |-> Ok, run_name |-> p.run_name, cfg |-> p.cfg, seenW |-> {}, seenS |-> {},
     countW |-> c.wk, countS |-> c.s, workloads |-> p.workloads, sections |-> p.sections,
     calls |-> << >>]

\* AgendaParser.load(raw, source) on a parser whose source is None
AgendaParserLoad(p, c, raw) ==
    IF raw.t # "dict"
    THEN WrapError(Fail(StartLoad(p, c),
                        Raise("ConfigError", "Invalid agenda, top level entry must be a dict",
                              {})))
    ELSE WrapError(LoadAgenda(StartLoad(p, c), raw.v))

\* AgendaParser.__init__
NewAgendaParser ==
    [source |-> None, run_name |-> None, cfg |-> NoConfig, workloads |-> << >>,
     sections |-> << >>]

(***************************************************************************)
(* State.                                                                  *)
(*  A configuration object and the calls on it:                            *)
(*   cls, inst   its class and its attributes                              *)
(*   pod         the portable form last produced by to_pod or handed to    *)
(*               from_pod; the caller drops it at the next other call      *)
(*  A JobGenerator:                                                        *)
(*   template    job_spec_template, the config of the root node            *)
(*   rootEntries root_node.workload_entries                                *)
(*   tree        the section nodes in creation order, each                 *)
(*               [parent, name, config, entries]; parent 0 is the root     *)
(*   enabled, readFlag   _enabled_instruments, _read_enabled_instruments   *)
(*   disabled, idsToRun  disabled_instruments, ids_to_run                  *)
(*   passed      the instrument names disable_instruments was called with  *)
(*               so far, and the list its last call was given              *)
(*   pass        the generator returned by generate_job_specs: "idle"      *)
(*               (none), "running", "done" (exhausted), "failed" (raised)  *)
(*   pending     the (leaf, workload entry) pairs the pass has yet to      *)
(*               resolve                                                   *)
(*   jobs        the job specs the pass has yielded, each with the leaf    *)
(*               and the workload entry it was resolved for                *)
(*   lastOp      the last call on the configuration object, with its       *)
(*               arguments                                                 *)
(*  An AgendaParser and the process it lives in:                           *)
(*   agenda      the parser: [source, run_name, cfg, workloads, sections]  *)
(*   counters    the process-wide counters of utils.types.counter, one     *)
(*               for the name "wk" and one for the name "s"                *)
(*   doc, before the document handed to the last load and the counters as  *)
(*               that load started                                         *)
(*   returned    what the last load returned: the sets of workload ids and *)
(*               of section ids, None when it raised                       *)
(*   calls       the calls the last load made to _collect_valid_id, each   *)
(*               [id, before, res, after]                                  *)
(*  The helper functions of parsers.py called on their own:                *)
(*   call        the function last called and its arguments                *)
(*   ret         the dict argument as the call left it                     *)
(*  A runtime-parameter catalog and its caller:                            *)
(*   catalog     the catalog object: its class and its runtime_parameters  *)
(*   dest        the dict the caller hands to update_value, name to        *)
(*               [value, sources]                                          *)
(*  All:                                                                   *)
(*   outcome     what the last call raised or returned                     *)
(***************************************************************************)
VARIABLES cls, inst, pod, outcome, lastOp,
          template, rootEntries, tree, enabled, readFlag, disabled, passed, idsToRun,
          pass, pending, jobs,
          agenda, counters, doc, before, returned, calls,
          call, ret, catalog, dest

cfgVars == <<cls, inst, pod, lastOp>>

genVars == <<template, rootEntries, tree, enabled, readFlag, disabled, passed, idsToRun,
             pass, pending, jobs>>

parVars == <<agenda, counters, doc, before, returned, calls, call, ret, catalog, dest>>

vars == <<cls, inst, pod, outcome, lastOp,
          template, rootEntries, tree, enabled, readFlag, disabled, passed, idsToRun,
          pass, pending, jobs,
          agenda, counters, doc, before, returned, calls,
          call, ret, catalog, dest>>

Classes == {"JobSpec", "RunConfiguration", "WAConfiguration"}

Op(name, point, value, cm) == [name |-> name, point |-> point, value |-> value, cm |-> cm]

Result(res) == [res |-> res, returned |-> "n/a", inst |-> EmptyDict]

\* JobGenerator.__init__: the template holds the id "global" and the default
\* of every JobSpec configuration point
NewTemplate == DictPut(LoadDefaults("JobSpec"), "id", Id(GlobalId))

\* a JobGenerator as constructed
GenInit ==
    /\ template = NewTemplate
    /\ rootEntries = << >>
    /\ tree = << >>
    /\ enabled = {}
    /\ readFlag = FALSE
    /\ disabled = << >>
    /\ passed = [ever |-> {}, last |-> << >>]
    /\ idsToRun = << >>
    /\ pass = "idle"
    /\ pending = << >>
    /\ jobs = << >>

\* an AgendaParser as constructed in a fresh process, and no helper called
ParInit ==
    /\ agenda = NewAgendaParser
    /\ counters = [wk |-> 0, s |-> 0]
    /\ doc = None
    /\ before = [wk |-> 0, s |-> 0]
    /\ returned = None
    /\ calls = << >>
    /\ call = None
    /\ ret = EmptyDict
    /\ catalog = [cls |-> "RuntimeParameterManager", runtime_parameters |-> << >>]
    /\ dest = EmptyDict

\* a configuration object as constructed
ObjInit ==
    /\ cls \in Classes
    /\ inst = NewInstance(cls)
    /\ pod = EmptyDict

(***************************************************************************)
(* The section tree (wlauto/core/configuration/tree.py, modelled from the  *)
(* specification: leaves() yields the leaves depth first in declared       *)
(* order, ancestors() yields the chain from the root down to the parent).  *)
(***************************************************************************)
Root == 0

Node(parent, name, config, entries) ==
    [parent |-> parent, name |-> name, config |-> config, entries |-> entries]

\* the node as a configuration source: its name and its config
NodeSource(t, tpl, n) ==
    IF n = Root
    THEN [name |-> "globally specified job spec configuration", config |-> tpl]
    ELSE [name |-> t[n].name, config |-> t[n].config]

\* node.workload_entries
WorkloadEntries(t, re, n) == IF n = Root THEN re ELSE t[n].entries

\* node.children, in the order they were added
Children(t, n) == SelectSeq([i \in 1..Len(t) |-> i], LAMBDA i : t[i].parent = n)

RECURSIVE Ancestors(_, _)
\* node.ancestors(): root first, parent last
Ancestors(t, n) ==
    IF n = Root THEN << >> ELSE Append(Ancestors(t, t[n].parent), t[n].parent)

RECURSIVE Depth(_, _)
Depth(t, n) == IF n = Root THEN 0 ELSE 1 + Depth(t, t[n].parent)

RECURSIVE LeavesFrom(_, _)
\* the leaves below the nodes of a worklist, depth first in declared order
LeavesFrom(t, ns) ==
    IF ns = << >> THEN << >>
    ELSE IF Children(t, Head(ns)) = << >> THEN <<Head(ns)>> \o LeavesFrom(t, Tail(ns))
    ELSE LeavesFrom(t, Children(t, Head(ns)) \o Tail(ns))

\* node.leaves(): the node itself if it has no children, else the leaves
\* below each child in turn
Leaves(t, n) == LeavesFrom(t, <<n>>)

(***************************************************************************)
(* The plugin cache and the target manager (external; modelled from the    *)
(* specification).  The catalog knows one workload, "bench", with one      *)
(* parameter p1 of default 0; no global source configures plugins.         *)
(***************************************************************************)
\* plugin_cache.get_plugin_parameters(name): the names of its parameters
WorkloadParameterNames(name) == IF name = S("bench") THEN {"p1"} ELSE {}

\* plugin_cache.get_plugin_config(name, generic_name="workload_parameters")
WorkloadPluginConfig(name) == IF name = S("bench") THEN D([p1 |-> I(0)]) ELSE D(EmptyDict)

RECURSIVE MergeRuntimeSources(_)
\* target_manager.merge_runtime_parameters: later sources override
MergeRuntimeSources(q) ==
    IF q = << >> THEN EmptyDict
    ELSE DictUpdate(MergeRuntimeSources(SubSeq(q, 1, Len(q) - 1)), q[Len(q)].values.v)

(***************************************************************************)
(* JobSpec, the steps of job resolution.                                   *)
(***************************************************************************)
RECURSIVE MergeSourceParams(_, _, _)
\* the loop of merge_workload_parameters over the sources found under key
MergeSourceParams(params, names, entries) ==
    IF entries = << >> THEN params
    ELSE LET config == Head(entries).values.v
             taken == names \cap DOMAIN config
         IN  MergeSourceParams(DictUpdate(params, [k \in taken |-> config[k]]),
                               names, Tail(entries))

\* merge_workload_parameters with the key it looks the layers' values up by
MergeWorkloadParametersBy(obj, key) ==
    LET workload_params == WorkloadPluginConfig(obj["workload_name"])
        cfg_points == WorkloadParameterNames(obj["workload_name"])
    IN  DictPut(obj, "workload_parameters",
                D(MergeSourceParams(workload_params.v, cfg_points, ToMergeOf(obj, key))))

\* JobSpec.merge_workload_parameters
MergeWorkloadParameters(obj) == MergeWorkloadParametersBy(obj, "workload_params")

\* JobSpec.merge_runtime_parameters: plugin_cache.sources is empty here
MergeRuntimeParameters(obj) ==
    DictPut(obj, "runtime_parameters",
            D(MergeRuntimeSources(ToMergeOf(obj, "runtime_parameters"))))

\* finalize taking the id of the last source alone, the workload entry
FinalizeEntryOnly(obj) ==
    LET sources == SubSeq(obj["_sources"], Len(obj["_sources"]), Len(obj["_sources"]))
    IN  IF \E k \in DOMAIN sources : "id" \notin DOMAIN sources[k].config
        THEN [res |-> Raise("KeyError", "id", {}), obj |-> obj]
        ELSE IF \E k \in DOMAIN sources : sources[k].config["id"].t # "id"
        THEN [res |-> Raise("TypeError", "expected string", {}), obj |-> obj]
        ELSE [res |-> Ok,
              obj |-> DictPut(obj, "id",
                              Id(Join(Dash, [k \in DOMAIN sources |-> sources[k].config["id"].v])))]

\* JobSpec.finalize: the ids of _sources[1:] joined by "-"
Finalize(obj) ==
    LET sources == SubSeq(obj["_sources"], 2, Len(obj["_sources"]))
    IN  IF \E k \in DOMAIN sources : "id" \notin DOMAIN sources[k].config
        THEN [res |-> Raise("KeyError", "id", {}), obj |-> obj]
        ELSE IF \E k \in DOMAIN sources : sources[k].config["id"].t # "id"
        THEN [res |-> Raise("TypeError", "expected string", {}), obj |-> obj]
        ELSE [res |-> Ok,
              obj |-> DictPut(obj, "id",
                              Id(Join(Dash, [k \in DOMAIN sources |-> sources[k].config["id"].v])))]

(***************************************************************************)
(* JobGenerator.generate_job_specs.                                        *)
(***************************************************************************)
RECURSIVE InsertSections(_, _)
\* for ancestor in leaf.ancestors(): sections.insert(0, ancestor)
InsertSections(ancestors, sections) ==
    IF ancestors = << >> THEN sections
    ELSE InsertSections(Tail(ancestors), <<Head(ancestors)>> \o sections)

RECURSIVE GatherEntries(_, _, _, _)
\* for ancestor in leaf.ancestors():
\*     workload_entries = ancestor.workload_entries + workload_entries
GatherEntries(t, re, ancestors, workload_entries) ==
    IF ancestors = << >> THEN workload_entries
    ELSE GatherEntries(t, re, Tail(ancestors),
                       WorkloadEntries(t, re, Head(ancestors)) \o workload_entries)

\* PHASE 1 for one leaf: the layer chain and the workload entries
SectionsOf(t, leaf) == InsertSections(Ancestors(t, leaf), <<leaf>>)

EntriesOf(t, re, leaf) == GatherEntries(t, re, Ancestors(t, leaf), WorkloadEntries(t, re, leaf))

RECURSIVE WorkOfLeaves(_, _, _)
\* the (leaf, workload entry) pairs in the order the two loops visit them
WorkOfLeaves(t, re, leaves) ==
    IF leaves = << >> THEN << >>
    ELSE LET es == EntriesOf(t, re, Head(leaves))
         IN  [k \in 1..Len(es) |-> [leaf |-> Head(leaves), entry |-> es[k]]]
                 \o WorkOfLeaves(t, re, Tail(leaves))

\* the keys of a source's config in iteration order
ConfigKeys(source) == SetToSeq(DOMAIN source.config)

RECURSIVE UpdateFromSections(_, _, _, _)
\* PHASE 2.1: for section in sections: job_spec.update_config(section, False)
UpdateFromSections(r, t, tpl, sections) ==
    IF Failed(r.res) \/ sections = << >> THEN r
    ELSE LET source == NodeSource(t, tpl, Head(sections))
         IN  UpdateFromSections(JobSpecUpdateConfig(r.obj, source, ConfigKeys(source), FALSE),
                                t, tpl, Tail(sections))

\* PHASE 2.1, last step: job_spec.update_config(workload_entry, False)
UpdateFromEntry(r, workload_entry) ==
    IF Failed(r.res) THEN r
    ELSE JobSpecUpdateConfig(r.obj, workload_entry, ConfigKeys(workload_entry), FALSE)

\* a call generate_job_specs makes on target_manager, with its argument
TargetCall(name, arg) == [name |-> name, arg |-> arg]

\* PHASE 2.2 and 2.3 in the order of the statements: each call on
\* target_manager gets job_spec.runtime_parameters as it is at that line
MergeSteps(obj) ==
    LET merged == MergeWorkloadParameters(obj)
        static == TargetCall("static_runtime_parameter_validation",
                             merged["runtime_parameters"])
        runtime == MergeRuntimeParameters(merged)
        dynamic == TargetCall("validate_runtime_parameters", runtime["runtime_parameters"])
    IN  [obj |-> runtime, seen |-> <<static, dynamic>>]

\* PHASE 2.2 to 2.4: the parameter blocks, then the disabled instruments
\* are set on top of the instrumentation
MergeParameters(r, dis) ==
    IF Failed(r.res) THEN r
    ELSE LET m == MergeSteps(r.obj)
             d == ConfigSet("JobSpec", m.obj, "instrumentation", L(dis), TRUE)
         IN  [res |-> d.res, obj |-> d.obj, seen |-> m.seen]

\* job_spec.finalize() at the end of PHASE 2.4
FinalizeJob(r) ==
    IF Failed(r.res) THEN r
    ELSE LET f == Finalize(r.obj)
         IN  [res |-> f.res, obj |-> f.obj, seen |-> r.seen]

\* PHASE 2.1 to 2.4 for one workload entry of one leaf
ResolveJob(t, tpl, dis, leaf, workload_entry) ==
    FinalizeJob(
        MergeParameters(
            UpdateFromEntry(
                UpdateFromSections([res |-> Ok, obj |-> NewInstance("JobSpec")],
                                   t, tpl, SectionsOf(t, leaf)),
                workload_entry),
            dis))

\* PHASE 2.5 keeping only the jobs whose id is one of the ids listed
IsAllowedExact(ids, job_id) == ids = << >> \/ \E k \in DOMAIN ids : ids[k] = job_id

\* PHASE 2.5: the job is kept when no allow-list is set or one of its ids is
\* a substring of the job's id
IsAllowed(ids, job_id) == ids = << >> \/ \E k \in DOMAIN ids : IsSubstring(ids[k], job_id)

\* update_enabled_instruments without the check of _read_enabled_instruments
UpdateEnabledInstrumentsUnchecked(rf, en, value) == [res |-> Ok, enabled |-> en \cup value]

\* JobGenerator.update_enabled_instruments(value)
UpdateEnabledInstruments(rf, en, value) ==
    IF rf
    THEN [res |-> Raise("RuntimeError",
                        "'enabled_instruments' cannot be updated after it has been accessed", {}),
          enabled |-> en]
    ELSE [res |-> Ok, enabled |-> en \cup value]

\* PHASE 2.6 and the yield, r being the job resolved for item and u the
\* result of update_enabled_instruments
YieldJob(u, r, item, en) ==
    IF Failed(u.res)
    THEN [kind |-> "raise", res |-> u.res, enabled |-> en]
    ELSE [kind |-> "yield", res |-> Ok, enabled |-> u.enabled,
          job |-> [spec |-> r.obj, leaf |-> item.leaf, entry |-> item.entry, seen |-> r.seen]]

\* PHASE 2.5 and 2.6 for the job resolved for item
FilterJob(r, item, ids, rf, en) ==
    IF Failed(r.res) THEN [kind |-> "raise", res |-> r.res, enabled |-> en]
    ELSE IF ~IsAllowed(ids, r.obj["id"].v) THEN [kind |-> "skip", res |-> Ok, enabled |-> en]
    ELSE YieldJob(UpdateEnabledInstruments(rf, en, ToggleValues(r.obj["instrumentation"].v)),
                  r, item, en)

\* one turn of the inner loop of generate_job_specs
ProcessItem(t, tpl, dis, ids, rf, en, item) ==
    FilterJob(ResolveJob(t, tpl, dis, item.leaf, item.entry), item, ids, rf, en)

\* what next() does with the outcome a of one turn: it returns the job
\* yielded, with the items left for the calls to come; it raises, and no item
\* is left; or, the job being skipped, it goes on as later says
AfterItem(a, items, later) ==
    IF a.kind = "skip" THEN later
    ELSE IF a.kind = "yield"
    THEN [kind |-> a.kind, res |-> a.res, enabled |-> a.enabled, rest |-> items, job |-> a.job]
    ELSE [kind |-> a.kind, res |-> a.res, enabled |-> a.enabled, rest |-> << >>]

RECURSIVE Advance(_, _, _, _, _, _, _)
\* one next() on the generator: resolve the work items in turn until one is
\* yielded, one raises, or none is left
Advance(t, tpl, dis, ids, rf, en, items) ==
    IF items = << >>
    THEN [kind |-> "stop", res |-> Raise("StopIteration", "", {}), rest |-> << >>, enabled |-> en]
    ELSE AfterItem(ProcessItem(t, tpl, dis, ids, rf, en, Head(items)), Tail(items),
                   Advance(t, tpl, dis, ids, rf, en, Tail(items)))

(***************************************************************************)
(* Inputs of the calls on a configuration object.                          *)
(***************************************************************************)
SetInputs(c) ==
    IF c = "JobSpec"
    THEN { <<"iterations", S("3")>>, <<"iterations", S("abc")>>,
           <<"workload_name", S("bench")>>, <<"workload_name", None>>,
           <<"instrumentation", L(<< <<"a">> >>)>>,
           <<"instrumentation", L(<< <<"~", "a">> >>)>>,
           <<"bogus", I(1)>> }
    ELSE IF c = "WAConfiguration"
    THEN { <<"plugin_paths", L(<<"extra", "workloads">>)>>, <<"verbosity", S("2")>> }
    ELSE { <<"device", S("dev")>>, <<"device", None>>,
           <<"reboot_policy", S("Never")>>, <<"reboot_policy", S("sometimes")>>,
           <<"execution_order", S("sideways")>>,
           <<"retry_on_status", L(<<"ok">>)>>,
           <<"max_retries", S("2")>> }

\* the items of the dicts handed to Configuration.update_config, in the order
\* the dict yields them
UpdateInputs(c) ==
    IF c = "WAConfiguration"
    THEN { << <<"plugin_paths", L(<<"extra", "workloads", "extra">>)>>,
              <<"verbosity", I(1)>> >>,
           << <<"plugin_ignore_paths", L(<<"old", "old">>)>>,
              <<"plugin_paths", L(<<"more">>)>> >> }
    ELSE { << <<"device", S("dev")>>, <<"max_retries", S("x")>> >>,
           << <<"max_retries", S("x")>>, <<"device", S("dev")>> >>,
           << <<"device", None>>, <<"max_retries", I(4)>> >>,
           << <<"project_stage", D([phase |-> I(1)])>>,
              <<"retry_on_status", L(<<"OK", "OK">>)>> >> }

\* the sources handed to JobSpec.update_config, with the order their config
\* yields its keys
SourceInputs ==
    { [source |-> [name |-> "s1", config |-> [id |-> Id(<<"s", "1">>), label |-> S("y"),
                                             iterations |-> S("abc")]],
       keys |-> <<"id", "label", "iterations">>],
      [source |-> [name |-> "s1", config |-> [id |-> Id(<<"s", "1">>), label |-> S("y"),
                                             iterations |-> S("abc")]],
       keys |-> <<"iterations", "label", "id">>],
      [source |-> [name |-> "wk1", config |-> [id |-> Id(<<"w", "k", "1">>),
                                              workload_name |-> S("bench"),
                                              workload_parameters |-> D([p1 |-> I(1)]),
                                              runtime_parameters |-> None]],
       keys |-> <<"id", "workload_name", "workload_parameters", "runtime_parameters">>],
      [source |-> [name |-> "s2", config |-> [id |-> Id(<<"s", "2">>),
                                             instrumentation |-> TS({<<"a">>, <<"~", "b">>}),
                                             classifiers |-> D([tag |-> S("t")]),
                                             iterations |-> I(2)]],
       keys |-> <<"id", "instrumentation", "classifiers", "iterations">>],
      [source |-> [name |-> "s3", config |-> [id |-> Id(<<"s", "3">>),
                                             instrumentation |-> L(<< <<"a">>, <<"~", "a">> >>)]],
       keys |-> <<"id", "instrumentation">>] }

\* pods handed to from_pod that no to_pod call produced
ForeignPods(c) ==
    IF c = "JobSpec"
    THEN { [workload_name |-> S("bench")],
           [workload_name |-> S("bench"), name |-> S("bench"), workload_parameters |-> None,
            runtime_parameters |-> None, boot_parameters |-> None],
           [iterations |-> S("abc"), workload_parameters |-> None,
            runtime_parameters |-> None, boot_parameters |-> None] }
    ELSE IF c = "WAConfiguration"
    THEN { [verbosity |-> I(1), bogus |-> I(1)] }
    ELSE { [device |-> S("dev"), device_config |-> None],
           [device |-> S("dev")],
           [device_config |-> None],
           [device |-> S("dev"), device_config |-> None, bogus |-> I(1)],
           [device |-> S("dev"), device_config |-> D([adb_name |-> None])],
           [device |-> S("dev"), device_config |-> D([nope |-> None])],
           [device |-> S("dev"), device_config |-> None, max_retries |-> S("x"),
            bogus |-> I(1)],
           [device |-> None, device_config |-> None, bogus |-> I(1)] }

(***************************************************************************)
(* Calls on a configuration object.                                        *)
(***************************************************************************)
CfgInit ==
    /\ ObjInit
    /\ GenInit
    /\ ParInit
    /\ outcome = Result(Ok)
    /\ lastOp = Op("init", "", None, FALSE)

\* cls()
CfgNew ==
    \E c \in Classes :
        /\ cls' = c
        /\ inst' = NewInstance(c)
        /\ pod' = EmptyDict
        /\ outcome' = Result(Ok)
        /\ lastOp' = Op("init", "", None, FALSE)

\* Configuration.set(name, value, check_mandatory)
CfgSet ==
    \E in \in SetInputs(cls), cm \in BOOLEAN :
        LET r == ConfigSet(cls, inst, in[1], in[2], cm)
        IN  /\ inst' = r.obj
            /\ outcome' = Result(r.res)
            /\ lastOp' = Op("set", in[1], in[2], cm)
            /\ pod' = EmptyDict
            /\ UNCHANGED cls

\* Configuration.update_config(values, check_mandatory)
CfgUpdate ==
    /\ cls # "JobSpec"
    /\ \E items \in UpdateInputs(cls), cm \in BOOLEAN :
        LET r == ConfigUpdate(cls, inst, items, cm)
        IN  /\ inst' = r.obj
            /\ outcome' = Result(r.res)
            /\ lastOp' = Op("update_config", "", [t |-> "items", v |-> items], cm)
            /\ pod' = EmptyDict
            /\ UNCHANGED cls

\* JobSpec.update_config(source, check_mandatory)
CfgUpdateSource ==
    /\ cls = "JobSpec"
    /\ Len(inst["_sources"]) < MaxOps
    /\ \E in \in SourceInputs, cm \in BOOLEAN :
        LET r == JobSpecUpdateConfig(inst, in.source, in.keys, cm)
        IN  /\ inst' = r.obj
            /\ outcome' = Result(r.res)
            /\ lastOp' = Op("update_config", "", [t |-> "source", v |-> in], cm)
            /\ pod' = EmptyDict
            /\ UNCHANGED cls

\* Configuration.validate()
CfgValidate ==
    /\ outcome' = Result(ConfigValidate(cls, inst))
    /\ lastOp' = Op("validate", "", None, FALSE)
    /\ pod' = EmptyDict
    /\ UNCHANGED <<cls, inst>>

\* RunConfiguration.merge_device_config(plugin_cache)
CfgMergeDeviceConfig ==
    /\ cls = "RunConfiguration"
    /\ inst["device"] # None
    /\ inst' = MergeDeviceConfig(inst)
    /\ outcome' = Result(Ok)
    /\ lastOp' = Op("merge_device_config", "", None, FALSE)
    /\ pod' = EmptyDict
    /\ UNCHANGED cls

\* to_pod()
CfgToPod ==
    /\ pod' = ToPod(cls, inst)
    /\ outcome' = Result(Ok)
    /\ lastOp' = Op("to_pod", "", None, FALSE)
    /\ UNCHANGED <<cls, inst>>

\* cls.from_pod(pod, plugin_cache) on the pod of the last to_pod, or on a
\* pod from elsewhere
CfgFromPod ==
    \E p \in {pod} \cup ForeignPods(cls) :
        \E o \in FromPod(cls, p) :
            /\ pod' = p
            /\ outcome' = o
            /\ lastOp' = Op("from_pod", "", None, FALSE)
            /\ UNCHANGED <<cls, inst>>

CfgNext ==
    /\ \/ CfgNew
       \/ CfgSet
       \/ CfgUpdate
       \/ CfgUpdateSource
       \/ CfgValidate
       \/ CfgMergeDeviceConfig
       \/ CfgToPod
       \/ CfgFromPod
    /\ UNCHANGED <<genVars, parVars>>

SpecConfig == CfgInit /\ [][CfgNext]_vars

(***************************************************************************)
(* Claims about configuration objects (checked under SpecConfig).          *)
(***************************************************************************)
\* the object passes validate(): no mandatory field is missing
IsValidObject == ~Failed(ConfigValidate(cls, inst))

\* the last call was from_pod on the pod that to_pod gives for the object
IsRoundTrip == lastOp.name = "from_pod" /\ pod = ToPod(cls, inst)

\* C7: round trip: for every valid configuration object with no mandatory
\* field missing, from_pod(to_pod(c)) succeeds and returns an object whose
\* parameter values equal those of c.
C7_RoundTrip ==
    (IsRoundTrip /\ IsValidObject) =>
        /\ outcome.returned = "instance"
        /\ \A n \in ConfigNames(cls) : outcome.inst[n] = inst[n]

\* the pod that reaches Configuration.from_pod, when the subclass gets there:
\* RunConfiguration.from_pod pops device_config first, JobSpec.from_pod reads
\* its three keys and leaves them in, WAConfiguration has no from_pod of its
\* own
ReachesBaseFromPod ==
    CASE cls = "JobSpec" -> ToMergeKeys \subseteq DOMAIN pod
      [] cls = "RunConfiguration" -> "device_config" \in DOMAIN pod
      [] OTHER -> TRUE

BasePod ==
    IF cls = "RunConfiguration" THEN DictWithout(pod, {"device_config"}) ELSE pod

\* C8: Configuration.from_pod fails with the "Invalid entry(ies)" ConfigError,
\* listing the leftover keys, if and only if the pod still holds a key after
\* every registered parameter name has been consumed from it; it never
\* returns an instance built from a pod with unrecognized keys.
C8_FromPodRejectsLeftover ==
    lastOp.name = "from_pod" =>
        /\ (outcome.res.msg = "Invalid entry(ies)") <=>
               /\ ReachesBaseFromPod
               /\ PodSetFailures(cls, BasePod) = {}
               /\ PodLeftover(cls, BasePod) # {}
        /\ outcome.res.msg = "Invalid entry(ies)" =>
               /\ outcome.res.exc = "ConfigError"
               /\ outcome.res.args = PodLeftover(cls, BasePod)
        /\ outcome.returned # "raised" =>
               (ReachesBaseFromPod /\ PodLeftover(cls, BasePod) = {})

\* C8 witness: a from_pod call on a pod whose registered names were all
\* consumed and which still held the key "bogus"
C8_Witness ==
    /\ lastOp.name = "from_pod"
    /\ cls = "RunConfiguration"
    /\ "device" \in DOMAIN pod
    /\ PodLeftover(cls, BasePod) = {"bogus"}
    /\ outcome.res.msg = "Invalid entry(ies)"

\* C9: the portable form produced by to_pod holds no key whose value is
\* None: an absent parameter is omitted, not written as null.
C9_PodOmitsNone ==
    lastOp.name = "to_pod" => \A k \in DOMAIN pod : pod[k] # None

MandatoryNoDefault(c) == {cp \in ConfigPoints(c) : cp.mandatory /\ cp.default = None}

\* C10: for every configuration point with mandatory=True and no default,
\* after any sequence of set / update_config calls validate() fails with a
\* ConfigError if and only if the owner's attribute is absent (None); and
\* set_value with an absent value fails for it only when check_mandatory.
C10_MandatoryValidate ==
    /\ \A cp \in MandatoryNoDefault(cls) :
          /\ Failed(CpValidate(cp, inst)) <=> (inst[cp.name] = None)
          /\ Failed(CpValidate(cp, inst)) => CpValidate(cp, inst).exc = "ConfigError"
          /\ (lastOp.name = "set" /\ lastOp.point = cp.name /\ lastOp.value = None) =>
                (Failed(outcome.res) <=> lastOp.cm)
    /\ lastOp.name = "validate" =>
          /\ Failed(outcome.res) <=> (\E cp \in MandatoryNoDefault(cls) : inst[cp.name] = None)
          /\ Failed(outcome.res) => outcome.res.exc = "ConfigError"

\* C10 witness: validate() failed on a job spec whose workload_name is absent
\* after other parameters were set
C10_Witness ==
    /\ lastOp.name = "validate"
    /\ cls = "JobSpec"
    /\ inst["workload_name"] = None
    /\ inst["iterations"] = I(3)
    /\ outcome.res.exc = "ConfigError"


(***************************************************************************)
(* Inputs of the calls on a JobGenerator.  Section and workload configs    *)
(* have the shape AgendaParser.load gives them: an id, the instrumentation *)
(* toggle set, the three parameter blocks, and the points the document     *)
(* set.  Ids are the automatic ones, s<k> and wk<k>.                       *)
(***************************************************************************)
GlobalInputs == { <<"iterations", I(4)>>, <<"instrumentation", L(<< <<"a">> >>)>> }

SectionConfigs(id) ==
    { [id |-> Id(id), iterations |-> I(2), instrumentation |-> TS({}),
       workload_parameters |-> None, runtime_parameters |-> None, boot_parameters |-> None],
      [id |-> Id(id), instrumentation |-> TS({<<"b">>}),
       workload_parameters |-> None, runtime_parameters |-> D([governor |-> S("fast")]),
       boot_parameters |-> None] }

WorkloadConfigs(id) ==
    { [id |-> Id(id), workload_name |-> S("bench"), instrumentation |-> TS({}),
       workload_parameters |-> None, runtime_parameters |-> None, boot_parameters |-> None],
      [id |-> Id(id), workload_name |-> S("bench"), iterations |-> I(3),
       instrumentation |-> TS({<<"a">>}),
       workload_parameters |-> D([p1 |-> I(5)]), runtime_parameters |-> None,
       boot_parameters |-> None] }

\* entries given to add_workload only: one without a workload name, one
\* whose workload_parameters hold a name the workload does not declare
OddWorkloadConfigs(id) ==
    { [id |-> Id(id), instrumentation |-> TS({}),
       workload_parameters |-> None, runtime_parameters |-> None, boot_parameters |-> None],
      [id |-> Id(id), workload_name |-> S("bench"), instrumentation |-> TS({}),
       workload_parameters |-> D([p1 |-> I(5), bogus |-> I(1)]), runtime_parameters |-> None,
       boot_parameters |-> None] }

\* the entries of the passes over the deeper trees
PassWorkloadConfigs(id) ==
    { [id |-> Id(id), workload_name |-> S("bench"), instrumentation |-> TS({}),
       workload_parameters |-> None, runtime_parameters |-> None, boot_parameters |-> None] }

UpdateValues == { {<<"a">>} }

\* the lists disable_instruments is called with
DisableInputs == { << <<"a">> >>, << <<"b">> >> }

\* the ids given to only_run_ids: one string, or a list of strings
OnlyRunInputs == { Id(<<"w", "k", "1">>), L(<< <<"s", "1">>, <<"k", "2">> >>) }

\* the sections and the workload entries added so far
NumSections == Len(tree)

RECURSIVE CountEntries(_, _)
CountEntries(t, n) == IF n = 0 THEN 0 ELSE Len(t[n].entries) + CountEntries(t, n - 1)

NumWorkloads == Len(rootEntries) + CountEntries(tree, Len(tree))

NextSectionId == AutoId(<<"s">>, NumSections + 1)

NextWorkloadId == AutoId(<<"w", "k">>, NumWorkloads + 1)

SectionName(id) == <<"section">> \o id

WorkloadName(id) == <<"workload">> \o id

\* the workloads argument of add_section: none or one entry, the tree
\* holding no more than max sections and entries
WorkloadListsOf(max) ==
    {<< >>} \cup
    IF NumSections + NumWorkloads + 1 < max
    THEN { <<[name |-> WorkloadName(NextWorkloadId), config |-> c]>> :
              c \in WorkloadConfigs(NextWorkloadId) }
    ELSE {}

(***************************************************************************)
(* The calls on a JobGenerator.  The tree, the template, the allow-list    *)
(* and disabled_instruments are set up before the first pass over          *)
(* generate_job_specs.                                                     *)
(***************************************************************************)
GenUnchangedCfg == UNCHANGED <<cfgVars, parVars>>

\* set_global_value(name, value): the template is set first, then the
\* accumulator is updated with the value as given
SetGlobalValueOf(name, value) ==
    /\ pass = "idle"
    /\ IF name \notin ConfigNames("JobSpec")
       THEN /\ outcome' = Result(Raise("KeyError", name, {}))
            /\ UNCHANGED <<template, enabled>>
       ELSE LET r == SetValue(Point("JobSpec", name), template, value, FALSE)
            IN  IF Failed(r.res)
                THEN /\ outcome' = Result(r.res)
                     /\ UNCHANGED <<template, enabled>>
                ELSE IF name = "instrumentation"
                THEN LET u == UpdateEnabledInstruments(readFlag, enabled, Range(value.v))
                     IN  /\ template' = r.obj
                         /\ enabled' = u.enabled
                         /\ outcome' = Result(u.res)
                ELSE /\ template' = r.obj
                     /\ outcome' = Result(Ok)
                     /\ UNCHANGED enabled
    /\ UNCHANGED <<rootEntries, tree, readFlag, disabled, passed, idsToRun, pass, pending, jobs>>
    /\ GenUnchangedCfg

SetGlobalValue == \E g \in GlobalInputs : SetGlobalValueOf(g[1], g[2])

\* add_section(section, workloads): a new child of the root
AddSectionOf(max) ==
    /\ pass = "idle"
    /\ NumSections + NumWorkloads < max
    /\ \E c \in SectionConfigs(NextSectionId), ws \in WorkloadListsOf(max) :
          tree' = Append(tree, Node(Root, SectionName(NextSectionId), c, ws))
    /\ outcome' = Result(Ok)
    /\ UNCHANGED <<template, rootEntries, enabled, readFlag, disabled, passed, idsToRun,
                   pass, pending, jobs>>
    /\ GenUnchangedCfg

AddSection == AddSectionOf(MaxNodes)

\* node.add_section(section) on a section node
AddSubSectionOf(max) ==
    /\ pass = "idle"
    /\ NumSections + NumWorkloads < max
    /\ \E parent \in 1..Len(tree), c \in SectionConfigs(NextSectionId) :
          tree' = Append(tree, Node(parent, SectionName(NextSectionId), c, << >>))
    /\ outcome' = Result(Ok)
    /\ UNCHANGED <<template, rootEntries, enabled, readFlag, disabled, passed, idsToRun,
                   pass, pending, jobs>>
    /\ GenUnchangedCfg

AddSubSection == AddSubSectionOf(MaxNodes)

\* add_workload(workload), the entry being one of configs: a new entry of the
\* root
AddWorkloadOf(configs, max) ==
    /\ pass = "idle"
    /\ NumSections + NumWorkloads < max
    /\ \E c \in configs :
          rootEntries' = Append(rootEntries, [name |-> WorkloadName(NextWorkloadId), config |-> c])
    /\ outcome' = Result(Ok)
    /\ UNCHANGED <<template, tree, enabled, readFlag, disabled, passed, idsToRun, pass, pending, jobs>>
    /\ GenUnchangedCfg

AddWorkload == AddWorkloadOf(WorkloadConfigs(NextWorkloadId), MaxNodes)

\* add_workload with any entry, the odd ones too
AddAnyWorkload ==
    AddWorkloadOf(WorkloadConfigs(NextWorkloadId) \cup OddWorkloadConfigs(NextWorkloadId),
                  MaxNodes)

\* only_run_ids(ids)
OnlyRunIds ==
    /\ pass = "idle"
    /\ \E ids \in OnlyRunInputs :
          /\ idsToRun' = IF ids.t = "id" THEN <<ids.v>> ELSE ids.v
          /\ lastOp' = Op("only_run_ids", "", ids, FALSE)
    /\ outcome' = Result(Ok)
    /\ UNCHANGED <<template, rootEntries, tree, enabled, readFlag, disabled, passed, pass, pending, jobs>>
    /\ UNCHANGED <<cls, inst, pod, parVars>>

\* the list of disable_instruments holding the names as they are given
DisabledPlain(instruments) == instruments

\* ["~{}".format(i) for i in instruments]
DisabledFrom(instruments) == [k \in DOMAIN instruments |-> Negate(instruments[k])]

\* disable_instruments(instruments)
DisableInstruments ==
    /\ pass = "idle"
    /\ \E instruments \in DisableInputs :
          /\ disabled' = DisabledFrom(instruments)
          /\ passed' = [ever |-> passed.ever \cup Range(instruments), last |-> instruments]
          /\ lastOp' = Op("disable_instruments", "", L(instruments), FALSE)
    /\ outcome' = Result(Ok)
    /\ UNCHANGED <<template, rootEntries, tree, enabled, readFlag, idsToRun, pass, pending, jobs>>
    /\ UNCHANGED <<cls, inst, pod, parVars>>

\* reading the enabled_instruments property
ReadEnabledInstruments ==
    /\ readFlag' = TRUE
    /\ outcome' = Result(Ok)
    /\ UNCHANGED <<template, rootEntries, tree, enabled, disabled, passed, idsToRun, pass, pending, jobs>>
    /\ GenUnchangedCfg

\* update_enabled_instruments(value) called directly
CallUpdateEnabledInstruments ==
    /\ \E value \in UpdateValues :
          LET u == UpdateEnabledInstruments(readFlag, enabled, value)
          IN  /\ enabled' = u.enabled
              /\ outcome' = Result(u.res)
    /\ UNCHANGED <<template, rootEntries, tree, readFlag, disabled, passed, idsToRun, pass, pending, jobs>>
    /\ GenUnchangedCfg

\* generate_job_specs(target_manager): a new generator; nothing runs yet
GenerateJobSpecs ==
    /\ pass # "running"
    /\ pass' = "running"
    /\ pending' = WorkOfLeaves(tree, rootEntries, Leaves(tree, Root))
    /\ jobs' = << >>
    /\ outcome' = Result(Ok)
    /\ UNCHANGED <<template, rootEntries, tree, enabled, readFlag, disabled, passed, idsToRun>>
    /\ GenUnchangedCfg

\* next() on the generator: it yields a job, raises, or is exhausted
GenNext ==
    /\ pass = "running"
    /\ \E a \in {Advance(tree, template, disabled, idsToRun, readFlag, enabled, pending)} :
           /\ pending' = a.rest
           /\ enabled' = a.enabled
           /\ outcome' = Result(a.res)
           /\ pass' = CASE a.kind = "yield" -> "running"
                        [] a.kind = "stop" -> "done"
                        [] OTHER -> "failed"
           /\ jobs' = IF a.kind = "yield" THEN Append(jobs, a.job) ELSE jobs
    /\ UNCHANGED <<template, rootEntries, tree, readFlag, disabled, passed, idsToRun>>
    /\ GenUnchangedCfg

Init ==
    /\ GenInit
    /\ ParInit
    /\ cls = "JobSpec"
    /\ inst = NewInstance("JobSpec")
    /\ pod = EmptyDict
    /\ outcome = Result(Ok)
    /\ lastOp = Op("init", "", None, FALSE)

Next ==
    \/ SetGlobalValue
    \/ AddSection
    \/ AddSubSection
    \/ AddWorkload
    \/ ReadEnabledInstruments
    \/ CallUpdateEnabledInstruments
    \/ GenerateJobSpecs
    \/ GenNext

Spec == Init /\ [][Next]_vars

\* The passes over generate_job_specs under an allow-list and with any
\* workload entry; the accumulator of enabled instruments is left to the
\* passes themselves.
JobsNext ==
    \/ AddSection
    \/ AddSubSection
    \/ AddAnyWorkload
    \/ OnlyRunIds
    \/ GenerateJobSpecs
    \/ GenNext

SpecJobs == Init /\ [][JobsNext]_vars

\* The passes with instruments enabled by the template, the sections and
\* the entries, some of them disabled for the whole run.
InstrumentsNext ==
    \/ SetGlobalValue
    \/ AddSection
    \/ AddWorkload
    \/ DisableInstruments
    \/ OnlyRunIds
    \/ GenerateJobSpecs
    \/ GenNext

SpecInstruments == Init /\ [][InstrumentsNext]_vars

\* The passes with no allow-list over trees of up to MaxPassNodes sections
\* and entries, each entry naming its workload.
AddPassSection == AddSectionOf(MaxPassNodes)

AddPassSubSection == AddSubSectionOf(MaxPassNodes)

AddPassWorkload == AddWorkloadOf(PassWorkloadConfigs(NextWorkloadId), MaxPassNodes)

PassNext ==
    \/ AddPassSection
    \/ AddPassSubSection
    \/ AddPassWorkload
    \/ GenerateJobSpecs
    \/ GenNext

SpecPass == Init /\ [][PassNext]_vars

(***************************************************************************)
(* Layer precedence and job ids.                                           *)
(***************************************************************************)
\* the JobSpec points that are not merged
NonMergeNames == {cp.name : cp \in {q \in JobSpecPoints : ~q.merge}}

\* the nodes a job draws on, from the root down to its leaf
PathOf(job) == Append(Ancestors(tree, job.leaf), job.leaf)

\* the configs of the layers of a job from the outermost to the innermost:
\* the root defaults, the ancestor sections, the leaf section, the entry
LayersOf(job) ==
    Append([k \in 1..Len(PathOf(job)) |-> NodeSource(tree, template, PathOf(job)[k]).config],
           job.entry.config)

\* the layers that supply a value for the parameter
Suppliers(layers, name) ==
    {k \in DOMAIN layers : name \in DOMAIN layers[k] /\ layers[k][name] # None}

Innermost(ks) == CHOOSE k \in ks : \A j \in ks : j <= k

\* the value the job should have: the innermost supplied one, as the point's
\* kind converts it, or the schema default
ExpectedValue(layers, name) ==
    IF Suppliers(layers, name) = {} THEN LoadDefaults("JobSpec")[name]
    ELSE Kind(Point("JobSpec", name).kind, layers[Innermost(Suppliers(layers, name))][name]).v

\* the tree of the example: one section S with iterations 2 holding one
\* workload that sets no iterations, root defaults untouched, no allow-list
IsExampleTree ==
    /\ Len(tree) = 1
    /\ rootEntries = << >>
    /\ Len(tree[1].entries) = 1
    /\ "iterations" \in DOMAIN tree[1].config
    /\ "iterations" \notin DOMAIN tree[1].entries[1].config
    /\ template = NewTemplate
    /\ idsToRun = << >>

\* C1: every job yielded has, for every non-merge parameter, the value of the
\* innermost layer that supplies it (layers in the order root defaults,
\* ancestor sections from the root down, leaf section, workload entry), the
\* schema default when none does; the example tree, once its pass is
\* exhausted, has yielded exactly one job, with iterations 2.
C1_LayerPrecedence ==
    /\ \A j \in DOMAIN jobs : \A name \in NonMergeNames :
          jobs[j].spec[name] = ExpectedValue(LayersOf(jobs[j]), name)
    /\ (IsExampleTree /\ pass = "done") =>
          (Len(jobs) = 1 /\ jobs[1].spec["iterations"] = I(2))

\* the ids of the non-root layers of a job, from the root down
LayerIds(job) ==
    LET path == SelectSeq(PathOf(job), LAMBDA n : n # Root)
    IN  Append([k \in 1..Len(path) |-> tree[path[k]].config["id"].v], job.entry.config["id"].v)

\* C2: the id of every job yielded is the ids of its non-root layers
\* (ancestor sections, leaf section, workload entry) joined by "-" from the
\* root down, without the root id "global"; a job whose leaf is the root has
\* the id of its workload entry.
C2_JobIdJoinsLayerIds ==
    \A j \in DOMAIN jobs :
        /\ jobs[j].spec["id"] = Id(Join(Dash, LayerIds(jobs[j])))
        /\ jobs[j].leaf = Root => jobs[j].spec["id"] = jobs[j].entry.config["id"]

(***************************************************************************)
(* The enabled-instrument accumulator.                                     *)
(***************************************************************************)
\* what the next() of the step would do with the accumulator open
OpenAdvance == Advance(tree, template, disabled, idsToRun, FALSE, enabled, pending)

\* the step is a next() that gets as far as PHASE 2.6 for some job, a being
\* what it would do with the accumulator open: a next() takes work items off
\* the pass, and no other call does
ReachesUpdate(a) == pass = "running" /\ pending' # pending /\ a.kind = "yield"

\* the names PHASE 2.6 hands to the accumulator in such a step
UpdateOfNext(a) == ToggleValues(a.job.spec["instrumentation"].v)

\* the step is set_global_value("instrumentation", value) getting as far as
\* the update of the accumulator
SetsGlobalInstrumentation(value) ==
    /\ SetGlobalValueOf("instrumentation", value)
    /\ ~Failed(SetValue(Point("JobSpec", "instrumentation"), template, value, FALSE).res)

IsReadOnlyError(res) == Failed(res) /\ res.exc = "RuntimeError"

\* C3: once enabled_instruments has been read, the accumulator never changes
\* again and every update (direct, by set_global_value("instrumentation", ..)
\* or by PHASE 2.6 of generate_job_specs) fails; before the first read the
\* updates succeed and only add names.
C3_ReadOnlyAfterRead ==
    [][ /\ readFlag => (readFlag' /\ enabled' = enabled)
        /\ enabled \subseteq enabled'
        /\ CallUpdateEnabledInstruments =>
              IF readFlag THEN IsReadOnlyError(outcome'.res)
              ELSE outcome'.res = Ok /\ \E value \in UpdateValues : enabled' = enabled \cup value
        /\ \A g \in GlobalInputs :
              (g[1] = "instrumentation" /\ SetsGlobalInstrumentation(g[2])) =>
                 IF readFlag THEN IsReadOnlyError(outcome'.res)
                 ELSE outcome'.res = Ok /\ enabled' = enabled \cup Range(g[2].v)
        /\ (pass = "running" /\ pending' # pending) =>
              \A a \in {OpenAdvance} :
                  ReachesUpdate(a) =>
                      IF readFlag THEN IsReadOnlyError(outcome'.res) /\ pass' = "failed"
                      ELSE outcome'.res = Ok /\ enabled' = enabled \cup UpdateOfNext(a)
      ]_vars

\* a pass has failed at PHASE 2.6 because the accumulator, filled before, had
\* been read
C3_Witness ==
    /\ readFlag
    /\ pass = "failed"
    /\ IsReadOnlyError(outcome.res)
    /\ enabled # {}
    /\ jobs # << >>

(***************************************************************************)
(* Agenda documents.  A document is the raw value read_pod gives: ids and  *)
(* names are strings, the lists are lists of entries.                      *)
(***************************************************************************)
\* the entries of one document
MaxEntries == 3

\* the value a counter may have reached when a load starts
MaxCount == 1

\* the items of an instrumentation or result_processors list
MaxItems == 2

BoundedSeq(A, n) == UNION { [1..k -> A] : k \in 0..n }

Wk1 == Id(<<"w", "k", "1">>)

Wk2 == Id(<<"w", "k", "2">>)

S1 == Id(<<"s", "1">>)

WorkloadShapes ==
    { S("x"),
      D([name |-> S("x")]),
      D([name |-> S("y")]),
      D([id |-> Wk1, name |-> S("x")]),
      D([id |-> Wk2, name |-> S("x")]),
      D([id |-> Id(<<"a", "-", "b">>), name |-> S("x")]),
      D([id |-> Id(GlobalId), name |-> S("x")]),
      D([id |-> None, name |-> S("x")]) }

SectionWorkloads == { D([name |-> S("x")]), D([id |-> Wk1, name |-> S("x")]),
                      D([id |-> Wk2, name |-> S("x")]) }

PlainSections == { D(EmptyDict), D([id |-> S1]), D([id |-> Id(GlobalId)]) }

SectionShapes ==
    PlainSections
        \cup { D([workloads |-> L(<<w>>)]) : w \in SectionWorkloads }
        \cup { D([id |-> S1, workloads |-> L(<<w>>)]) : w \in SectionWorkloads }

RECURSIVE CountSectionEntries(_)
CountSectionEntries(sections) ==
    IF sections = << >> THEN 0
    ELSE 1 + Len(WorkloadsOf(Head(sections))) + CountSectionEntries(Tail(sections))

SectionLists ==
    { ss \in BoundedSeq(SectionShapes, MaxEntries) : CountSectionEntries(ss) <= MaxEntries }

\* the documents whose entries carry ids of every kind
IdDocs ==
    UNION { { D([workloads |-> L(ws), sections |-> L(ss)]) :
                  ws \in BoundedSeq(WorkloadShapes, MaxEntries - CountSectionEntries(ss)) } :
            ss \in SectionLists }

One == <<"o", "n", "e">>

Two == <<"t", "w", "o">>

Three == <<"t", "h", "r", "e", "e">>

\* the documents of a wrong shape, and the ones with a configuration
StructureDocs ==
    { I(5),
      D([config |-> L(<< >>)]),
      D([config |-> D([run_name |-> S("r"), iterations |-> I(2)])]),
      D([global |-> D([run_name |-> S("r")])]),
      D([global |-> D([id |-> Wk1])]),
      D([config |-> D([run_name |-> S("r")]), global |-> D([id |-> Wk1])]),
      D([global |-> D([instrumentation |-> L(<<One, Two>>),
                       result_processors |-> L(<<Negate(One), Three>>)])]),
      D([global |-> D([instrumentation |-> L(<<One>>), result_processors |-> L(<<Two>>)]),
         workloads |-> L(<<S("x")>>)]),
      D([config |-> D([instrumentation |-> L(<<One>>), iterations |-> I(2)])]),
      D([config |-> D([instruments |-> L(<<One>>)]), global |-> D([iterations |-> I(3)]),
         workloads |-> L(<<S("x")>>)]),
      D([bogus |-> I(1)]),
      D([global |-> I(3)]),
      D([workloads |-> L(<<S("x")>>), bogus |-> I(1), more |-> I(2)]),
      D([config |-> D([run_name |-> S("r")]), workloads |-> L(<<S("x")>>),
         sections |-> S("s")]),
      D([sections |-> D(EmptyDict)]),
      D([workloads |-> S("x")]),
      D([workloads |-> L(<<I(5)>>)]),
      D([workloads |-> L(<<D([name |-> S("x"), bogus |-> I(1)])>>)]),
      D([workloads |-> L(<<D([name |-> S("x"), iterations |-> S("many")])>>)]),
      D([workloads |-> L(<<D([name |-> S("x"), params |-> D([p1 |-> I(5)]),
                              workload_params |-> D([p1 |-> I(6)])])>>)]),
      D([workloads |-> L(<<D([name |-> S("x"), params |-> D([p1 |-> I(5)])])>>)]),
      D([sections |-> L(<<D([id |-> S1, params |-> D([governor |-> S("fast")]),
                             workload_params |-> D([p1 |-> I(5)])])>>)]),
      D([sections |-> L(<<D([id |-> S1, params |-> D([governor |-> S("fast")]),
                             runtime_params |-> D([governor |-> S("slow")])])>>)]) }

AgendaDocs == IdDocs \cup StructureDocs

(***************************************************************************)
(* The calls on an AgendaParser.                                           *)
(***************************************************************************)
ParUnchanged ==
    UNCHANGED <<cfgVars, genVars, call, ret, catalog, dest>>

\* self.source set once the load has gone through, a being what it gave
SourceOnSuccess(a) == IF Failed(a.res) THEN None ELSE S("agenda")

\* self.source = source, ahead of the try block: set whatever the load
\* gives, the source being the name of the agenda
SourceAfterLoad(a) == S("agenda")

\* load(raw, source) on a parser that has loaded nothing: a is what
\* AgendaParserLoad gives
AgendaLoadOf(raw, a) ==
    /\ agenda' = [source |-> SourceAfterLoad(a), run_name |-> a.run_name, cfg |-> a.cfg,
                  workloads |-> a.workloads, sections |-> a.sections]
    /\ counters' = [wk |-> a.countW, s |-> a.countS]
    /\ doc' = raw
    /\ before' = counters
    /\ returned' = IF Failed(a.res) THEN None
                   ELSE D([workloads |-> a.seenW, sections |-> a.seenS])
    /\ calls' = a.calls
    /\ outcome' = Result(a.res)

AgendaLoad ==
    /\ agenda.source = None
    /\ counters.wk <= MaxCount
    /\ counters.s <= MaxCount
    /\ \E raw \in AgendaDocs :
           \E a \in {AgendaParserLoad(agenda, counters, raw)} : AgendaLoadOf(raw, a)
    /\ ParUnchanged

\* load(raw, source) on a parser that has a source
AgendaLoadAgain ==
    /\ agenda.source # None
    /\ \E raw \in {D(EmptyDict), D([workloads |-> L(<<S("x")>>)])} : doc' = raw
    /\ before' = counters
    /\ returned' = None
    /\ calls' = << >>
    /\ outcome' = Result(Raise("RuntimeError", "WA Can only ever have  *ONE* agenda", {}))
    /\ UNCHANGED <<agenda, counters>>
    /\ ParUnchanged

\* AgendaParser() once more in the same process: the counters stay
AgendaNew ==
    /\ agenda.source # None
    /\ agenda' = NewAgendaParser
    /\ doc' = None
    /\ before' = counters
    /\ returned' = None
    /\ calls' = << >>
    /\ outcome' = Result(Ok)
    /\ UNCHANGED counters
    /\ ParUnchanged

AgendaInit ==
    /\ ParInit
    /\ GenInit
    /\ cls = "JobSpec"
    /\ inst = NewInstance("JobSpec")
    /\ pod = EmptyDict
    /\ outcome = Result(Ok)
    /\ lastOp = Op("init", "", None, FALSE)

AgendaNext ==
    \/ AgendaLoad
    \/ AgendaLoadAgain
    \/ AgendaNew

SpecAgenda == AgendaInit /\ [][AgendaNext]_vars

(***************************************************************************)
(* A JobGenerator populated from a loaded agenda (the loader that does it  *)
(* is outside the sources; modelled from the specification: one            *)
(* add_workload per global workload, one add_section per section with its  *)
(* workloads, in document order).                                          *)
(***************************************************************************)
\* the source object of the i-th workload entry of the k-th section, 0 for
\* the root
EntrySource(k, i, config) ==
    [name |-> WorkloadName(Digits(k) \o <<".">> \o Digits(i)), config |-> config]

\* the entries given to add_workload or to add_section
EntrySources(k, workloads) ==
    [i \in DOMAIN workloads |-> EntrySource(k, i, workloads[i])]

\* add_workload and add_section for all of jobs_config
PopulateFromAgenda ==
    /\ agenda.source # None
    /\ returned # None
    /\ pass = "idle"
    /\ rootEntries = << >> /\ tree = << >>
    /\ agenda.workloads # << >> \/ agenda.sections # << >>
    /\ rootEntries' = EntrySources(0, agenda.workloads)
    /\ tree' = [k \in DOMAIN agenda.sections |->
                   Node(Root, SectionName(Digits(k)), agenda.sections[k].section,
                        EntrySources(k, agenda.sections[k].workloads))]
    /\ outcome' = Result(Ok)
    /\ UNCHANGED <<template, enabled, readFlag, disabled, passed, idsToRun, pass, pending, jobs>>
    /\ GenUnchangedCfg

\* The passes over the trees of the agendas: one load in a fresh process,
\* the tree populated from what it gave, then the passes.
ResolveNext ==
    \/ AgendaLoad
    \/ PopulateFromAgenda
    \/ GenerateJobSpecs
    \/ GenNext

SpecResolve == AgendaInit /\ [][ResolveNext]_vars

(***************************************************************************)
(* The helper functions of parsers.py called on their own.                 *)
(***************************************************************************)
ToggleItems == {One, Negate(One), Two, Three}

ToggleLists == BoundedSeq(ToggleItems, MaxItems)

\* the entries merge_result_processors_instruments is called on
MergeInputs ==
    { DictUpdate(i, r) :
          i \in {EmptyDict}
                    \cup { [instrumentation |-> L(l)] : l \in ToggleLists }
                    \cup { [instruments |-> L(l)] : l \in ToggleLists }
                    \cup { [instrumentation |-> L(l), instruments |-> L(l)] :
                               l \in ToggleLists },
          r \in {EmptyDict, [iterations |-> I(2)]}
                    \cup { [result_processors |-> L(l)] : l \in ToggleLists } }

CallMergeResultProcessorsInstruments ==
    /\ call = None
    /\ \E raw \in MergeInputs :
           \E m \in {MergeResultProcessorsInstruments(raw)} :
               /\ call' = [fn |-> "merge_result_processors_instruments", raw |-> raw]
               /\ ret' = m.raw
               /\ outcome' = Result(m.res)
    /\ UNCHANGED <<cfgVars, genVars, agenda, counters, doc, before, returned, calls,
                   catalog, dest>>

\* the points, dicts and defaults get_aliased_param is called with: the
\* point of the tests with its aliases and a point without one; dicts over
\* the names of the point and a name it does not have
AliasPoints ==
    { CP("test", "str", FALSE, None, {}, FALSE, <<"workload_parameters", "workload_params">>),
      CP("test", "str", FALSE, None, {}, FALSE, << >>) }

AliasKeys == {"test", "workload_parameters", "workload_params", "instruments"}

AliasValue(k) ==
    CASE k = "test" -> I(1)
      [] k = "workload_parameters" -> L(<<I(1), I(2)>>)
      [] k = "workload_params" -> L(<<I(2), I(3)>>)
      [] OTHER -> I(4)

AliasDicts == { [k \in ks |-> AliasValue(k)] : ks \in SUBSET AliasKeys }

AliasDefaults == { None, L(<< >>) }

\* get_aliased_param(cfg_point, d, default, pop) called directly
CallGetAliasedParam ==
    /\ call = None
    /\ \E cfg_point \in AliasPoints, d \in AliasDicts, default \in AliasDefaults,
          pop \in BOOLEAN :
           \E m \in {GetAliasedParamOf(cfg_point, d, default, pop)} :
               /\ call' = [fn |-> "get_aliased_param", cfg_point |-> cfg_point, d |-> d,
                           default |-> default, pop |-> pop]
               /\ ret' = m.d
               /\ outcome' = [res |-> m.res, returned |-> "value", inst |-> EmptyDict,
                              value |-> m.value]
    /\ UNCHANGED <<cfgVars, genVars, agenda, counters, doc, before, returned, calls,
                   catalog, dest>>

\* the caller is done with what the call gave
HelperDone ==
    /\ call # None
    /\ call' = None
    /\ ret' = EmptyDict
    /\ outcome' = Result(Ok)
    /\ UNCHANGED <<cfgVars, genVars, agenda, counters, doc, before, returned, calls,
                   catalog, dest>>

HelpersNext ==
    \/ CallMergeResultProcessorsInstruments
    \/ CallGetAliasedParam
    \/ HelperDone

SpecHelpers == AgendaInit /\ [][HelpersNext]_vars

(***************************************************************************)
(* The runtime-parameter catalogs.  The name of a RuntimeParameter is the  *)
(* pattern "(.+)" followed by a fixed text; it is kept as that text.       *)
(***************************************************************************)
RuntimeParameter(name, kind, merge) == [name |-> name, kind |-> kind, merge |-> merge]

\* RuntimeParameter.match: re.match of "(.+)<text>", at least one character
\* and then the text, anything after it
RtpMatch(rtp, name) ==
    \E i \in 1..Len(name) :
        /\ i + Len(rtp.name) <= Len(name)
        /\ SubSeq(name, i + 1, i + Len(rtp.name)) = rtp.name

\* RuntimeParameter.validate_kind: the converted value is dropped
ValidateKind(rtp, value, name) ==
    IF Kind(rtp.kind, value).exc \in {"ValueError", "TypeError"}
    THEN Raise("ConfigError", "Bad value", {name})
    ELSE IF Kind(rtp.kind, value).exc # "none"
    THEN Raise(Kind(rtp.kind, value).exc, "kind", {name})
    ELSE Ok

\* RuntimeParameter.update_value: [res, dest]
RtpUpdateValue(rtp, name, new_value, source, d) ==
    LET old_value == IF name \in DOMAIN d THEN d[name].value ELSE None
        sources == DictPut(IF name \in DOMAIN d THEN d[name].sources ELSE EmptyDict,
                           source, new_value)
        merged == IF rtp.merge THEN MergeConfigValues(old_value, new_value) ELSE new_value
    IN  IF Failed(ValidateKind(rtp, new_value, name))
        THEN [res |-> ValidateKind(rtp, new_value, name), dest |-> d]
        ELSE [res |-> Ok, dest |-> DictPut(d, name, [value |-> merged, sources |-> sources])]

\* RuntimeParameterManager.match
ManagerMatch(rtps, name) == \E k \in DOMAIN rtps : RtpMatch(rtps[k], name)

RECURSIVE ManagerUpdateValue(_, _, _, _, _)
\* RuntimeParameterManager.update_value: the loop over runtime_parameters
\* and its else branch
ManagerUpdateValue(rtps, name, value, source, d) ==
    IF rtps = << >>
    THEN [res |-> Raise("ConfigError", "Unknown runtime parameter", {name}), dest |-> d]
    ELSE IF RtpMatch(Head(rtps), name)
    THEN RtpUpdateValue(Head(rtps), name, value, source, d)
    ELSE ManagerUpdateValue(Tail(rtps), name, value, source, d)

CoresText == <<"_", "c", "o", "r", "e", "s">>

FrequencyText == <<"_", "f", "r", "e", "q", "u", "e", "n", "c", "y">>

MinFrequencyText == <<"_", "m", "i", "n">> \o FrequencyText

MaxFrequencyText == <<"_", "m", "a", "x">> \o FrequencyText

GovernorText == <<"_", "g", "o", "v", "e", "r", "n", "o", "r">>

GovernorTunablesText == GovernorText \o <<"_", "t", "u", "n", "a", "b", "l", "e", "s">>

\* CpuFreqParameters.runtime_parameters, the items of the dict
CpuFreqRuntimeParameters ==
    << <<"cores", RuntimeParameter(CoresText, "str", FALSE)>>,
       <<"min_frequency", RuntimeParameter(MinFrequencyText, "integer", FALSE)>>,
       <<"max_frequency", RuntimeParameter(MaxFrequencyText, "integer", FALSE)>>,
       <<"frequency", RuntimeParameter(FrequencyText, "integer", FALSE)>>,
       <<"governor", RuntimeParameter(GovernorText, "str", FALSE)>>,
       <<"governor_tunables", RuntimeParameter(GovernorTunablesText, "str", FALSE)>> >>

\* CpuFreqParameters.match: over the values of runtime_parameters
CpuFreqMatch(items, name) == \E k \in DOMAIN items : RtpMatch(items[k][2], name)

\* CpuFreqParameters.update_value: the loop is over iteritems(), so param is
\* a (key, parameter) tuple and param.name raises in the first turn; over an
\* empty dict the else branch builds a RuntimeError and does not raise it
CpuFreqUpdateValue(items, name, value, source) ==
    IF items = << >> THEN Ok
    ELSE Raise("AttributeError", "'tuple' object has no attribute 'name'", {})

\* CpuFreqParameters._get_merged_value: param is the RuntimeParameter found
\* under param_name, with the attributes it has, and the key
\* "{core}_{param_name}" is the pair of the two; [res, v]
GetMergedValue(param, core, param_name) ==
    IF "merged_values" \notin DOMAIN param
    THEN [res |-> Raise("AttributeError",
                        "'RuntimeParameter' object has no attribute 'merged_values'", {}),
          v |-> None]
    ELSE IF <<core, param_name>> \notin DOMAIN param["merged_values"]
    THEN [res |-> Raise("KeyError", param_name, {core}), v |-> None]
    ELSE [res |-> Ok, v |-> param["merged_values"][<<core, param_name>>]]

\* min_freq < frequency < max_frequency
Between(min_freq, frequency, max_frequency) ==
    min_freq < frequency /\ frequency < max_frequency

\* CpuFreqParameters._cross_validate(core), params being runtime_parameters
\* by name
CrossValidate(params, core) ==
    LET min_freq == GetMergedValue(params["min_frequency"], core, "min_frequency")
        max_frequency == GetMergedValue(params["max_frequency"], core, "max_frequency")
        frequency == GetMergedValue(params["frequency"], core, "frequency")
    IN  IF Failed(min_freq.res) THEN min_freq.res
        ELSE IF Failed(max_frequency.res) THEN max_frequency.res
        ELSE IF max_frequency.v < min_freq.v
        THEN Raise("ConfigError", "max_frequency must be larger than min_frequency", {core})
        ELSE IF Failed(frequency.res) THEN frequency.res
        ELSE IF ~Between(min_freq.v, frequency.v, max_frequency.v)
        THEN Raise("ConfigError",
                   "frequency must be between min_frequency and max_frequency", {core})
        ELSE Ok

\* match(name) of a catalog
CatalogMatch(c, name) ==
    IF c.cls = "CpuFreqParameters" THEN CpuFreqMatch(c.runtime_parameters, name)
    ELSE ManagerMatch(c.runtime_parameters, name)

\* update_value of a catalog, d being the caller's dict: [res, dest]
CatalogUpdateValue(c, name, value, source, d) ==
    IF c.cls = "CpuFreqParameters"
    THEN [res |-> CpuFreqUpdateValue(c.runtime_parameters, name, value, source), dest |-> d]
    ELSE ManagerUpdateValue(c.runtime_parameters, name, value, source, d)

Big == <<"b", "i", "g">>

\* the catalogs: RuntimeParameterManager itself, subclasses of it with
\* parameters of their own, and an instance of CpuFreqParameters for the
\* core "big"
Catalogs ==
    { [cls |-> "RuntimeParameterManager", runtime_parameters |-> rtps] :
          rtps \in { << >>,
                     <<RuntimeParameter(MinFrequencyText, "integer", FALSE),
                       RuntimeParameter(FrequencyText, "str", FALSE)>>,
                     <<RuntimeParameter(FrequencyText, "str", FALSE),
                       RuntimeParameter(MinFrequencyText, "integer", FALSE)>>,
                     <<RuntimeParameter(GovernorText, "str", TRUE)>> } }
        \cup { [cls |-> "CpuFreqParameters", runtime_parameters |-> CpuFreqRuntimeParameters,
                core_names |-> {Big}] }

RtNames ==
    { Big \o FrequencyText, Big \o MinFrequencyText, Big \o GovernorText, FrequencyText,
      <<"v", "o", "l", "u", "m", "e">> }

RtValues == { I(5), S("fast") }

RtSources == { "s1", "s2" }

\* a catalog and an empty dict for its values
RtNew ==
    /\ \E c \in Catalogs : catalog' = c
    /\ dest' = EmptyDict
    /\ call' = None
    /\ outcome' = Result(Ok)
    /\ UNCHANGED <<cfgVars, genVars, agenda, counters, doc, before, returned, calls, ret>>

\* catalog.update_value(name, value, source, dest)
RtUpdateValue ==
    /\ \E name \in RtNames, value \in RtValues, source \in RtSources :
           \E r \in {CatalogUpdateValue(catalog, name, value, source, dest)} :
               /\ dest' = r.dest
               /\ outcome' = Result(r.res)
               /\ call' = [fn |-> "update_value", name |-> name, value |-> value,
                           source |-> source, dest |-> dest]
    /\ UNCHANGED <<cfgVars, genVars, agenda, counters, doc, before, returned, calls, ret,
                   catalog>>

\* the frequencies of the model
MaxFreq == 2

\* the merged values a caller may have set for a core, name by name
MergedValues(core) ==
    [{"min_frequency", "max_frequency", "frequency"} -> 0..MaxFreq]

\* runtime_parameters[param_name]
ParamNamed(items, param_name) ==
    items[CHOOSE k \in DOMAIN items : items[k][1] = param_name][2]

\* the frequency parameters of the catalog as the class builds them, and
\* with merged_values set on each by a caller: "{core}_{name}" to f[name]
FrequencyParams(items, core) ==
    { [n \in {"min_frequency", "max_frequency", "frequency"} |-> ParamNamed(items, n)] }
      \cup { [n \in {"min_frequency", "max_frequency", "frequency"} |->
                 DictPut(ParamNamed(items, n), "merged_values", [k \in {<<core, n>>} |-> f[n]])] :
              f \in MergedValues(core) }

\* _cross_validate(core) on a CpuFreqParameters
RtCrossValidate ==
    /\ catalog.cls = "CpuFreqParameters"
    /\ \E core \in catalog.core_names :
           \E params \in FrequencyParams(catalog.runtime_parameters, core) :
               /\ outcome' = Result(CrossValidate(params, core))
               /\ call' = [fn |-> "_cross_validate", core |-> core, params |-> params]
    /\ UNCHANGED <<cfgVars, genVars, agenda, counters, doc, before, returned, calls, ret,
                   catalog, dest>>

RtNext ==
    \/ RtNew
    \/ RtUpdateValue
    \/ RtCrossValidate

SpecRuntime == AgendaInit /\ [][RtNext]_vars

(***************************************************************************)
(* The ids AgendaParser.load assigns and accepts.                          *)
(***************************************************************************)
\* the last call was a load and it returned
Loaded == agenda.source # None /\ outcome.res = Ok

IdsOf(entries) == [k \in 1..Len(entries) |-> entries[k]["id"]]

RECURSIVE SectionWorkloadIds(_)
SectionWorkloadIds(sections) ==
    IF sections = << >> THEN << >>
    ELSE IdsOf(Head(sections).workloads) \o SectionWorkloadIds(Tail(sections))

\* the ids of the workloads in jobs_config, the global ones first
WorkloadIds == IdsOf(agenda.workloads) \o SectionWorkloadIds(agenda.sections)

\* the ids of the sections in jobs_config
SectionIds == [k \in 1..Len(agenda.sections) |-> agenda.sections[k].section["id"]]

RECURSIVE DocSectionWorkloads(_)
DocSectionWorkloads(sections) ==
    IF sections = << >> THEN << >>
    ELSE WorkloadsOf(Head(sections)) \o DocSectionWorkloads(Tail(sections))

\* the workloads of the document in the same order
DocWorkloads ==
    PopValue(doc.v, "workloads", L(<< >>)).v
        \o DocSectionWorkloads(PopValue(doc.v, "sections", L(<< >>)).v)

DocSections == PopValue(doc.v, "sections", L(<< >>)).v

\* the entry of the document carries an id of its own
HasUserId(entry) == entry.t = "dict" /\ "id" \in DOMAIN entry.v

UserIds(entries) == { entries[k].v["id"] : k \in {j \in DOMAIN entries : HasUserId(entries[j])} }

Distinct(q) == \A i, j \in DOMAIN q : i # j => q[i] # q[j]

AutoIdsApart(ids, entries) ==
    \A k \in DOMAIN ids : ~HasUserId(entries[k]) => ids[k] \notin UserIds(entries)

ExampleDoc ==
    D([workloads |-> L(<<D([id |-> Wk2, name |-> S("x")]), D([name |-> S("x")]),
                         D([name |-> S("y")])>>),
       sections |-> L(<< >>)])

\* C4: after a load that succeeded the workload ids of the document, given
\* or assigned, global or of a section, are pairwise distinct, and so are
\* the section ids; no assigned id equals a given id of the same kind,
\* wherever that one is declared; in a fresh process the workloads
\* [{id: wk2}, {name: x}, {name: y}] get wk1 and wk3
C4_IdsDistinct ==
    Loaded =>
        /\ Distinct(WorkloadIds)
        /\ Distinct(SectionIds)
        /\ AutoIdsApart(WorkloadIds, DocWorkloads)
        /\ AutoIdsApart(SectionIds, DocSections)
        /\ (doc = ExampleDoc /\ before.wk = 0) =>
               WorkloadIds = <<Wk2, Wk1, Id(<<"w", "k", "3">>)>>

\* what _collect_valid_id has to do with a call
Rejects(c) == c.id \in c.before \/ Dash \in Range(c.id.v) \/ c.id.v = GlobalId

AcceptedIds == Range(WorkloadIds) \cup Range(SectionIds)

\* C5: _collect_valid_id raises ConfigError for an id other than None that
\* is in seen_ids, holds a "-" or is "global", and leaves seen_ids as it was;
\* any other id than None it adds to seen_ids; so no id of an entry that
\* AgendaParser.load has taken holds a "-" or is "global"
C5_CollectValidId ==
    /\ \A k \in DOMAIN calls :
           calls[k].id # None =>
               IF Rejects(calls[k])
               THEN calls[k].res.exc = "ConfigError" /\ calls[k].after = calls[k].before
               ELSE calls[k].res = Ok /\ calls[k].after = calls[k].before \cup {calls[k].id}
    /\ \A id \in AcceptedIds \ {None} : Dash \notin Range(id.v) /\ id.v # GlobalId

\* a load took an id and then met the reserved one
C5_Witness ==
    /\ Len(calls) >= 2
    /\ calls[1].id # None /\ calls[1].after = {calls[1].id}
    /\ calls[Len(calls)].id = Id(GlobalId)
    /\ calls[Len(calls)].before # {}
    /\ outcome.res.exc = "ConfigError"

(***************************************************************************)
(* merge_result_processors_instruments called on an entry.                 *)
(***************************************************************************)
MergeCalled == call # None /\ call.fn = "merge_result_processors_instruments"

\* the names under which the entry gives its instrumentation list
InstrumentKeys == {"instrumentation", "instruments"} \cap DOMAIN call.raw

InstrumentItems == UNION { Range(call.raw[k].v) : k \in InstrumentKeys }

ProcessorItems ==
    IF "result_processors" \in DOMAIN call.raw
    THEN Range(call.raw["result_processors"].v) ELSE {}

\* the names that stand as they are in one list and with a "~" in the other
Clashes ==
    { n \in {One, Two, Three} :
          \/ n \in InstrumentItems /\ Negate(n) \in ProcessorItems
          \/ Negate(n) \in InstrumentItems /\ n \in ProcessorItems }

\* C6: merge_result_processors_instruments raises ConfigError whenever a
\* name stands as it is in one of the two lists of the entry and with a "~"
\* in the other, whichever list holds which, and the error names just those
\* names; when it raises, the entry holds no merged "instrumentation"
C6_ConflictRejected ==
    MergeCalled =>
        /\ Clashes # {} => outcome.res.exc = "ConfigError"
        /\ (Clashes # {} /\ Cardinality(InstrumentKeys) = 1) => outcome.res.args = Clashes
        /\ (call.raw = [instrumentation |-> L(<<One, Two>>),
                        result_processors |-> L(<<Negate(One), Three>>)]) =>
               outcome.res.exc = "ConfigError" /\ outcome.res.args = {One}
        /\ Failed(outcome.res) =>
               \A k \in DOMAIN ret : ret[k].t # "toggle_set" /\ ret[k] = call.raw[k]
        /\ (~Failed(outcome.res)) =>
               /\ Clashes = {}
               /\ ret["instrumentation"] = TS(MergeWith(InstrumentItems, ProcessorItems))

\* the conflict of the two lists [one, two] and [~one, three] was met
C6_Witness ==
    /\ MergeCalled
    /\ call.raw = [instrumentation |-> L(<<One, Two>>),
                   result_processors |-> L(<<Negate(One), Three>>)]
    /\ outcome.res.exc = "ConfigError"
    /\ outcome.res.args = {One}
    /\ "instrumentation" \notin DOMAIN ret

(***************************************************************************)
(* The same layer applied twice.                                           *)
(***************************************************************************)
\* the step is update_config called again with the arguments of the call
\* before it, both calls returning
SameLayerAgain ==
    /\ lastOp.name = "update_config"
    /\ lastOp' = lastOp
    /\ ~Failed(outcome.res)
    /\ ~Failed(outcome'.res)

\* the parameters of a configuration object, with the blocks a JobSpec keeps
\* for merging
Parameters(c, obj) ==
    IF c = "JobSpec" THEN [n \in ConfigNames(c) \cup {"to_merge"} |-> obj[n]]
    ELSE [n \in ConfigNames(c) |-> obj[n]]

\* the value the layer of a call gives to a name, None when it gives none
LayerValue(op, name) ==
    IF op.value.t = "source"
    THEN PopValue(op.value.v.source.config, name, None)
    ELSE IF \E k \in DOMAIN op.value.v : op.value.v[k][1] = name
    THEN op.value.v[CHOOSE k \in DOMAIN op.value.v : op.value.v[k][1] = name][2]
    ELSE None

\* the layer gives an instrumentation list that holds an item both as it is
\* and with a "~"
TogglesBothWays(op) ==
    /\ LayerValue(op, "instrumentation") # None
    /\ \E i \in ToggleSetOf(LayerValue(op, "instrumentation")) :
           Negate(i) \in ToggleSetOf(LayerValue(op, "instrumentation"))

\* C11: update_config called twice in succession with the same layer leaves
\* every parameter with the value it had after the first call, whether the
\* parameter overrides or merges (lists, mappings, toggle sets)
C11_Idempotent ==
    [][ SameLayerAgain => Parameters(cls, inst') = Parameters(cls, inst) ]_vars

\* C11 for the layers whose instrumentation list holds no item both ways
C11_IdempotentUnlessBothWays ==
    [][ (SameLayerAgain /\ ~TogglesBothWays(lastOp)) =>
            Parameters(cls, inst') = Parameters(cls, inst) ]_vars

\* a JobSpec has taken the same layer twice, with a toggle set, a mapping and
\* an overriding value in it
C11_Witness ==
    /\ cls = "JobSpec"
    /\ lastOp.name = "update_config"
    /\ ~Failed(outcome.res)
    /\ Len(inst["_sources"]) = 2
    /\ inst["_sources"][1] = inst["_sources"][2]
    /\ inst["instrumentation"] = TS({<<"a">>, <<"~", "b">>})
    /\ inst["classifiers"] = D([tag |-> S("t")])
    /\ inst["iterations"] = I(2)

(***************************************************************************)
(* The id allow-list.                                                      *)
(***************************************************************************)
\* the allow-list as the caller gave it: the list of the last only_run_ids
\* call, a single string standing for the list of that one string; empty
\* when only_run_ids was never called
AllowList ==
    IF lastOp.name # "only_run_ids" THEN << >>
    ELSE IF lastOp.value.t = "id" THEN <<lastOp.value.v>>
    ELSE lastOp.value.v

\* part occurs in job_id as a run of consecutive characters
HasPart(job_id, part) ==
    \E i \in 0..Len(job_id) : \E j \in i..Len(job_id) : SubSeq(job_id, i + 1, j) = part

\* the id of the job that item resolves to
JobIdOf(item) == ResolveJob(tree, template, disabled, item.leaf, item.entry).obj["id"].v

\* the work items the pass has gone through so far
ItemsSeen ==
    LET work == WorkOfLeaves(tree, rootEntries, Leaves(tree, Root))
    IN  SubSeq(work, 1, Len(work) - Len(pending))

\* the work items of the jobs yielded so far
ItemsYielded == [k \in DOMAIN jobs |-> [leaf |-> jobs[k].leaf, entry |-> jobs[k].entry]]

\* C12: with a non-empty allow-list set by only_run_ids, a job is yielded if
\* and only if its id contains one of the listed ids as a substring; with an
\* empty allow-list every job is yielded; a single string given to
\* only_run_ids is the allow-list of that one string
C12_AllowList ==
    pass \in {"running", "done"} =>
        ItemsYielded =
            SelectSeq(ItemsSeen,
                      LAMBDA item : \/ AllowList = << >>
                                    \/ \E k \in DOMAIN AllowList :
                                           HasPart(JobIdOf(item), AllowList[k]))

\* a pass under the allow-list "wk1", given as a single string, has ended
\* with a job yielded whose id holds more than "wk1", and a job left out
C12_Witness ==
    /\ pass = "done"
    /\ lastOp.name = "only_run_ids"
    /\ lastOp.value = Id(<<"w", "k", "1">>)
    /\ Len(jobs) = 1
    /\ jobs[1].spec["id"].v # <<"w", "k", "1">>
    /\ Len(ItemsSeen) = 2

(***************************************************************************)
(* Validity of the jobs yielded.                                           *)
(***************************************************************************)
\* the configuration points of JobSpec that validate() finds unset
MandatoryUnset(spec) ==
    {cp.name : cp \in {q \in JobSpecPoints : q.mandatory /\ GetAttr(spec, q.name) = None}}

FirstLoad(raw) == AgendaParserLoad(NewAgendaParser, [wk |-> 0, s |-> 0], raw)

\* C14: the ids a fresh AgendaParser assigns to a document are those any
\* other fresh AgendaParser assigns to it in the same process, however many
\* ids the loads before it have used up: they are the ids of the first load
C14_AutoIdsDeterministic ==
    Loaded =>
        \A a \in {FirstLoad(doc)} :
            /\ IdsOf(agenda.workloads) = IdsOf(a.workloads)
            /\ SectionIds = [k \in 1..Len(a.sections) |-> a.sections[k].section["id"]]
            /\ SectionWorkloadIds(agenda.sections) = SectionWorkloadIds(a.sections)

(***************************************************************************)
(* Documents of a wrong shape.                                             *)
(***************************************************************************)
TopLevelKeys == {"config", "global", "sections", "workloads"}

\* the top-level keys of a document that hold the wrong type, and the ones
\* that may not be there
OffendingKeys(raw) ==
    {n \in {"config", "global"} \cap DOMAIN raw.v : raw.v[n].t # "dict"}
        \cup {n \in {"sections", "workloads"} \cap DOMAIN raw.v : raw.v[n].t # "list"}
        \cup (DOMAIN raw.v \ TopLevelKeys)

IllFormed(raw) == raw.t # "dict" \/ OffendingKeys(raw) # {}

\* the message for the keys an error names
ShapeMessage(keys) ==
    IF keys \subseteq {"config", "global"} THEN "Invalid entry - must be a dict"
    ELSE IF keys \subseteq {"sections", "workloads"} THEN "Invalid entry - must be a list"
    ELSE "Invalid top level agenda entry(ies)"

\* load was called on a parser that had loaded nothing
FirstLoadDone == agenda.source # None /\ outcome.res.exc # "RuntimeError"

\* C15: AgendaParser.load raises a ConfigError that starts with
\* 'Error in "<source>"' and names the offending key for a document that is
\* no dict, whose config or global entry is no dict, whose sections or
\* workloads entry is no list, or that holds another top-level key; and then
\* jobs_config has no section and no workload entry
C15_RejectsWrongShape ==
    (FirstLoadDone /\ IllFormed(doc)) =>
        /\ outcome.res.exc = "ConfigError"
        /\ IF doc.t # "dict"
           THEN outcome.res.msg =
                    "Error in \"source\": " \o "Invalid agenda, top level entry must be a dict"
           ELSE /\ outcome.res.args # {}
                /\ outcome.res.args \subseteq OffendingKeys(doc)
                /\ outcome.res.msg = "Error in \"source\": " \o ShapeMessage(outcome.res.args)
        /\ agenda.workloads = << >>
        /\ agenda.sections = << >>

\* a document with a workload and two keys that may not be there was
\* refused, both keys named
C15_Witness ==
    /\ FirstLoadDone
    /\ doc.t = "dict"
    /\ "workloads" \in DOMAIN doc.v
    /\ doc.v["workloads"].t = "list"
    /\ OffendingKeys(doc) = {"bogus", "more"}
    /\ outcome.res.args = {"bogus", "more"}
    /\ agenda.workloads = << >>

(***************************************************************************)
(* Names a runtime-parameter catalog does not know.                        *)
(***************************************************************************)
UpdateValueCalled == call # None /\ call.fn = "update_value"

RECURSIVE FirstMatching(_, _)
\* the first parameter in registration order that matches name
FirstMatching(rtps, name) ==
    IF RtpMatch(Head(rtps), name) THEN Head(rtps) ELSE FirstMatching(Tail(rtps), name)

\* the parameters of the catalog in registration order
Registered ==
    IF catalog.cls = "CpuFreqParameters"
    THEN [k \in DOMAIN catalog.runtime_parameters |-> catalog.runtime_parameters[k][2]]
    ELSE catalog.runtime_parameters

\* C16: update_value of a catalog, RuntimeParameterManager or
\* CpuFreqParameters, on a name that match(name) refuses fails with "Unknown
\* runtime parameter" and records nothing; on a name that match(name)
\* accepts it does what the first matching parameter in registration order
\* does with it
C16_UnknownRuntimeParameter ==
    UpdateValueCalled =>
        IF ~CatalogMatch(catalog, call.name)
        THEN /\ Failed(outcome.res)
             /\ outcome.res.msg = "Unknown runtime parameter"
             /\ dest = call.dest
        ELSE \A r \in {RtpUpdateValue(FirstMatching(Registered, call.name), call.name,
                                      call.value, call.source, call.dest)} :
                 /\ outcome.res = r.res
                 /\ dest = r.dest

(***************************************************************************)
(* The order of the layers and of the jobs.                                *)
(***************************************************************************)
\* the layers of a job from the root down: the root, the ancestor sections,
\* the leaf, then the workload entry
LayerSources(job) ==
    Append([k \in 1..Len(PathOf(job)) |-> NodeSource(tree, template, PathOf(job)[k])],
           job.entry)

\* C17: ancestors() giving the root first, the layers generate_job_specs
\* applies for a leaf with two ancestors or more are the root, the sections
\* down to the parent, the leaf, so that _sources lists them outermost first
C17_ChainRootFirst ==
    \A j \in DOMAIN jobs :
        Len(Ancestors(tree, jobs[j].leaf)) >= 2 =>
            jobs[j].spec["_sources"] = LayerSources(jobs[j])

RECURSIVE EntriesOnPath(_)
\* the workload entries of the nodes of a path, node after node
EntriesOnPath(path) ==
    IF path = << >> THEN << >>
    ELSE WorkloadEntries(tree, rootEntries, Head(path)) \o EntriesOnPath(Tail(path))

RECURSIVE PairsOfLeaves(_)
\* the (leaf, workload entry) pairs, leaf after leaf, the entries of each
\* leaf from the root's down to its own
PairsOfLeaves(leaves) ==
    IF leaves = << >> THEN << >>
    ELSE LET es == EntriesOnPath(Append(Ancestors(tree, Head(leaves)), Head(leaves)))
         IN  [k \in 1..Len(es) |-> [leaf |-> Head(leaves), entry |-> es[k]]]
                 \o PairsOfLeaves(Tail(leaves))

\* the pass does not raise; while it runs, the jobs yielded are the first of
\* the pairs in their order and as many pairs are left to the calls of
\* next() to come, each of which takes at least one; when it has ended the
\* jobs yielded are all the pairs
YieldedInOrder ==
    \A pairs \in {PairsOfLeaves(Leaves(tree, Root))} :
        /\ pass # "failed"
        /\ pass = "running" =>
               /\ Len(jobs) + Len(pending) = Len(pairs)
               /\ ItemsYielded = SubSeq(pairs, 1, Len(jobs))
        /\ pass = "done" => ItemsYielded = pairs

\* C18: with no allow-list generate_job_specs yields one job for each pair
\* of a leaf and a workload entry on the path from the root to it, and ends;
\* the jobs come leaf after leaf in the order of leaves(), and for one leaf
\* the root's entries first, then those of the sections down to the leaf's
\* own, each node's in the order they were declared
C18_OneJobPerPair == idsToRun = << >> => YieldedInOrder

(***************************************************************************)
(* The workload parameters of the jobs.                                    *)
(***************************************************************************)
\* the workload_parameters block of a layer, empty when it gives none
BlockOf(layer) ==
    IF "workload_parameters" \in DOMAIN layer /\ layer["workload_parameters"].t = "dict"
    THEN layer["workload_parameters"].v
    ELSE EmptyDict

\* the layers of the job whose block sets the parameter
BlockSuppliers(job, p) == {k \in DOMAIN LayersOf(job) : p \in DOMAIN BlockOf(LayersOf(job)[k])}

\* C19: a parameter of the job's workload that a layer of the job sets in
\* its workload_parameters block has in the job's workload_parameters the
\* value of the innermost layer that sets it, not the default the plugin
\* cache gives
C19_WorkloadParametersMerged ==
    \A j \in DOMAIN jobs :
        \A p \in WorkloadParameterNames(jobs[j].spec["workload_name"]) :
            BlockSuppliers(jobs[j], p) # {} =>
                /\ p \in DOMAIN jobs[j].spec["workload_parameters"].v
                /\ jobs[j].spec["workload_parameters"].v[p] =
                       BlockOf(LayersOf(jobs[j])[Innermost(BlockSuppliers(jobs[j], p))])[p]

\* the keys of the blocks of the job's layers that are no parameter of its
\* workload
UnknownBlockKeys(job) ==
    UNION { DOMAIN BlockOf(LayersOf(job)[k]) : k \in DOMAIN LayersOf(job) }
        \ WorkloadParameterNames(job.spec["workload_name"])

\* C20: a job one of whose layers holds in its workload_parameters block a
\* key that is no parameter of the job's workload is not yielded:
\* merge_workload_parameters fails with a configuration error
C20_UnknownParameterRejected ==
    \A j \in DOMAIN jobs : UnknownBlockKeys(jobs[j]) = {}

(***************************************************************************)
(* The validation of the runtime parameters of the jobs.                   *)
(***************************************************************************)
\* the arguments static_runtime_parameter_validation was called with for
\* the job
StaticallyValidated(job) ==
    {job.seen[k].arg : k \in {i \in DOMAIN job.seen :
                                 job.seen[i].name = "static_runtime_parameter_validation"}}

\* C21: for every job, static_runtime_parameter_validation is called on the
\* merged runtime parameters: what it is given is what
\* merge_runtime_parameters has left in job_spec.runtime_parameters
C21_StaticValidationOfMerged ==
    \A j \in DOMAIN jobs : StaticallyValidated(jobs[j]) = {jobs[j].spec["runtime_parameters"]}

(***************************************************************************)
(* The instruments disabled for the whole run.                             *)
(***************************************************************************)
\* the instruments positively enabled in the job's resolved instrumentation
EnabledIn(job) == ToggleValues(job.spec["instrumentation"].v)

\* the instruments the layers of the job enable
EnabledByLayers(job) ==
    UNION { IF "instrumentation" \in DOMAIN LayersOf(job)[k]
               /\ LayersOf(job)[k]["instrumentation"].t \in {"toggle_set"}
            THEN ToggleValues(LayersOf(job)[k]["instrumentation"].v)
            ELSE {} : k \in DOMAIN LayersOf(job) }

\* C22: no instrument name passed to disable_instruments, in whichever
\* call, is positively enabled in the instrumentation of a yielded job
C22_DisabledEverNotEnabled ==
    \A j \in DOMAIN jobs : EnabledIn(jobs[j]) \cap passed.ever = {}

\* C22: no instrument name passed to the last call of disable_instruments
\* before the pass is positively enabled in the instrumentation of a
\* yielded job, whichever layers enabled it
C22_DisabledLastNotEnabled ==
    \A j \in DOMAIN jobs :
        \A k \in DOMAIN passed.last : passed.last[k] \notin EnabledIn(jobs[j])

\* a job is yielded one of whose layers enables an instrument that is
\* disabled for the run
C22_Witness ==
    \E j \in DOMAIN jobs :
        \E k \in DOMAIN passed.last :
            /\ passed.last[k] \in EnabledByLayers(jobs[j])
            /\ Negate(passed.last[k]) \in jobs[j].spec["instrumentation"].v

(***************************************************************************)
(* The value and the provenance RuntimeParameter.update_value records.     *)
(***************************************************************************)
\* update_value of a RuntimeParameterManager has handed the call to the
\* first parameter that matches the name, and that parameter has returned
ParameterUpdated ==
    /\ UpdateValueCalled
    /\ catalog.cls = "RuntimeParameterManager"
    /\ ManagerMatch(catalog.runtime_parameters, call.name)
    /\ ~Failed(outcome.res)

\* the value of the call coerced by the kind of the parameter
Coerced(rtp) == Kind(rtp.kind, call.value).v

\* the working value the name had in dest before the call
WorkingBefore == IF call.name \in DOMAIN call.dest THEN call.dest[call.name].value ELSE None

\* the provenance map the name had in dest before the call
SourcesBefore ==
    IF call.name \in DOMAIN call.dest THEN call.dest[call.name].sources ELSE EmptyDict

\* C23: RuntimeParameter.update_value(name, value, source, dest) leaves in
\* dest[name] the provenance map of before with the source mapped to the
\* value it supplied, and as working value the value coerced by the kind of
\* the parameter, merged with the working value of before when the parameter
\* is merge-enabled
C23_ValueAndProvenance ==
    ParameterUpdated =>
        \A rtp \in {FirstMatching(catalog.runtime_parameters, call.name)} :
            /\ call.name \in DOMAIN dest
            /\ dest[call.name].sources = DictPut(SourcesBefore, call.source, call.value)
            /\ dest[call.name].value =
                   IF rtp.merge THEN MergeConfigValues(WorkingBefore, Coerced(rtp))
                   ELSE Coerced(rtp)

(***************************************************************************)
(* The cross validation of the frequencies of a core.                      *)
(***************************************************************************)
CrossValidateCalled == call # None /\ call.fn = "_cross_validate"

\* the merged values of the call are there to be read
MergedValuesSet ==
    \A n \in DOMAIN call.params : "merged_values" \in DOMAIN call.params[n]

\* the merged value of the call for the parameter
MergedOf(n) == call.params[n]["merged_values"][<<call.core, n>>]

\* min_frequency <= frequency <= max_frequency
BetweenInclusive(min_freq, frequency, max_frequency) ==
    min_freq <= frequency /\ frequency <= max_frequency

\* C24: _cross_validate accepts the merged values of a core exactly when
\* min_frequency <= frequency <= max_frequency, a frequency equal to one of
\* the bounds included, and fails otherwise with a ConfigError that names
\* the core
C24_CrossValidateInclusive ==
    CrossValidateCalled /\ MergedValuesSet =>
        IF BetweenInclusive(MergedOf("min_frequency"), MergedOf("frequency"),
                            MergedOf("max_frequency"))
        THEN outcome.res = Ok
        ELSE /\ Failed(outcome.res)
             /\ outcome.res.exc = "ConfigError"
             /\ call.core \in outcome.res.args

(***************************************************************************)
(* get_aliased_param.                                                      *)
(***************************************************************************)
AliasedParamCalled == call # None /\ call.fn = "get_aliased_param"

\* the keys of d that are the name of the point or one of its aliases
AliasesGiven ==
    DOMAIN call.d \cap ({call.cfg_point.name} \cup Range(call.cfg_point.aliases))

\* C25: get_aliased_param(cfg_point, d) fails with ConfigError and leaves d
\* as it is when more than one of the point's name and aliases is a key of
\* d; when just one is, it returns the value of that key, takes the key out
\* of d when pop is true and leaves d as it is when pop is false; when none
\* is, it returns the default and leaves d as it is
C25_AliasedParam ==
    AliasedParamCalled =>
        CASE Cardinality(AliasesGiven) > 1 ->
                 /\ Failed(outcome.res)
                 /\ outcome.res.exc = "ConfigError"
                 /\ ret = call.d
          [] Cardinality(AliasesGiven) = 1 ->
                 \A k \in AliasesGiven :
                     /\ outcome.res = Ok
                     /\ outcome.value = call.d[k]
                     /\ ret = IF call.pop THEN DictWithout(call.d, {k}) ELSE call.d
          [] OTHER ->
                 /\ outcome.res = Ok
                 /\ outcome.value = call.default
                 /\ ret = call.d

\* the one key found was read and left in the dict, with other keys beside
\* it
C25_Witness ==
    /\ AliasedParamCalled
    /\ ~call.pop
    /\ AliasesGiven = {"workload_parameters"}
    /\ "instruments" \in DOMAIN call.d
    /\ outcome.value = L(<<I(1), I(2)>>)
    /\ ret = call.d

(***************************************************************************)
(* The ids of the jobs of a pass over the tree of an agenda.               *)
(***************************************************************************)
\* the tree is the one populated from the agenda loaded
FromAgenda ==
    /\ agenda.source # None
    /\ returned # None
    /\ Len(rootEntries) = Len(agenda.workloads)
    /\ Len(tree) = Len(agenda.sections)

\* C26: in a pass over a tree populated from an agenda that loaded, no two
\* jobs yielded have the same id
C26_JobIdsDistinct ==
    FromAgenda =>
        \A i, j \in DOMAIN jobs : jobs[i].spec["id"] = jobs[j].spec["id"] => i = j

\* a pass has yielded the jobs of two sections that share a global workload
C26_Witness ==
    /\ FromAgenda
    /\ pass = "done"
    /\ \E i, j \in DOMAIN jobs :
           /\ i # j
           /\ jobs[i].entry = jobs[j].entry
           /\ jobs[i].leaf # jobs[j].leaf

(***************************************************************************)
(* The accumulator of enabled instruments after a pass.                    *)
(***************************************************************************)
\* C27: when a pass has been consumed to its end, every name in the
\* accumulator of enabled instruments is positively enabled in the resolved
\* instrumentation of a job the pass yielded
C27_AccumulatorFromYieldedJobs ==
    pass = "done" => \A n \in enabled : \E j \in DOMAIN jobs : n \in EnabledIn(jobs[j])

(***************************************************************************)
(* set_global_value calls that fail.                                       *)
(***************************************************************************)
\* C28: a set_global_value call that fails leaves the generator as it was:
\* set_global_value("instrumentation", v) after enabled_instruments has been
\* read raises, and neither the accumulator nor the template has changed
C28_FailedSetGlobalValueChangesNothing ==
    [][ (SetGlobalValue /\ Failed(outcome'.res)) =>
            /\ enabled' = enabled
            /\ template' = template
      ]_vars

(***************************************************************************)
(* The config and global entries of an agenda.                             *)
(***************************************************************************)
\* the entry of the document under name, {} when it has none
EntryOf(name) == IF name \in DOMAIN doc.v THEN doc.v[name] ELSE D(EmptyDict)

\* the names under which an entry can give the JobSpec point n
NamesOf(n) ==
    {n} \cup Range(Point("JobSpec", n).aliases)
        \cup (IF n = "instrumentation" THEN {"result_processors"} ELSE {})

GivenIn(name, n) == DOMAIN EntryOf(name).v \cap NamesOf(n) # {}

\* what config_section holds when the config entry alone has been loaded
ConfigAlone == ConfigParserLoad(DictWithout(EntryOf("config").v, {"run_name"}), NoConfig)

\* C29: after a load that has taken the config entry and then the global
\* entry of the agenda, every job-spec value the config entry gives and the
\* global entry does not is in config_section.jobs_config as the config
\* entry gave it, a non-empty instrumentation list included
C29_ConfigKeptAfterGlobal ==
    (FirstLoadDone /\ doc.t = "dict" /\ ~Failed(outcome.res)) =>
        \A n \in ConfigNames("JobSpec") :
            (GivenIn("config", n) /\ ~GivenIn("global", n)) =>
                /\ n \in DOMAIN agenda.cfg.jobs
                /\ agenda.cfg.jobs[n] = ConfigAlone.cfg.jobs[n]

(***************************************************************************)
(* One agenda for one AgendaParser.                                        *)
(***************************************************************************)
\* load is called on the parser
LoadStep == AgendaLoad \/ AgendaLoadAgain

\* C30: once load has been entered on a parser, with a dict or with
\* something else, and whether it returned or raised, every later load on
\* that parser raises RuntimeError and leaves the sections and the workload
\* entries of jobs_config as they were
C30_OneAgenda ==
    [][ (doc # None /\ LoadStep) =>
            /\ outcome'.res.exc = "RuntimeError"
            /\ agenda'.workloads = agenda.workloads
            /\ agenda'.sections = agenda.sections
      ]_vars

\* a parser that had been given its one load has refused a document with a
\* workload and holds no entry of it
C30_Witness ==
    /\ agenda.source # None
    /\ agenda.workloads = << >>
    /\ agenda.cfg = NoConfig
    /\ doc = D([workloads |-> L(<<S("x")>>)])
    /\ outcome.res.exc = "RuntimeError"

====
